---- MODULE Spec2Model ----
(***************************************************************************)
(* The interactive SQL shell of bunny-cli (commands/db/shell.ts): the      *)
(* history store, the masking engine, the result renderer, the statement   *)
(* splitter, the dot-command dispatcher and the readline-driven REPL.      *)
(*                                                                         *)
(* Text is a sequence of one-character strings.  Fixed literals of the     *)
(* program (messages, ANSI styling codes) are single elements of a text.   *)
(***************************************************************************)
EXTENDS Integers, Sequences, FiniteSets, TLC

(***************************************************************************)
(* Bounds of the model.                                                    *)
(***************************************************************************)
\* line events (typed lines and answers) of one session
MaxLines == 3
\* line handlers suspended in an await at the same time
MaxTasks == 2

(***************************************************************************)
(* String primitives of the JavaScript runtime.                            *)
(***************************************************************************)
IsWs(c) == c \in {" ", "\n", "\t", "\r"}

RECURSIVE TrimStart(_)
TrimStart(s) == IF s = <<>> THEN <<>>
                ELSE IF IsWs(Head(s)) THEN TrimStart(Tail(s)) ELSE s

RECURSIVE TrimEnd(_)
TrimEnd(s) == IF s = <<>> THEN <<>>
              ELSE IF IsWs(s[Len(s)]) THEN TrimEnd(SubSeq(s, 1, Len(s) - 1)) ELSE s

\* String.prototype.trim
Trim(s) == TrimEnd(TrimStart(s))

\* String.prototype.startsWith / endsWith / includes / indexOf
StartsWith(s, p) == Len(p) <= Len(s) /\ SubSeq(s, 1, Len(p)) = p

EndsWith(s, p) == Len(p) <= Len(s) /\ SubSeq(s, Len(s) - Len(p) + 1, Len(s)) = p

Includes(s, p) == \E i \in 1..(Len(s) - Len(p) + 1) : SubSeq(s, i, i + Len(p) - 1) = p

\* 0-based index of the first occurrence of character c at or after 0-based
\* position from; -1 when there is none
IndexOf(s, c, from) ==
    LET hits == {i \in (from + 1)..Len(s) : s[i] = c}
    IN  IF hits = {} THEN -1 ELSE (CHOOSE i \in hits : \A j \in hits : i <= j) - 1

\* Array.prototype.join (the list is joined half by half, so that a history
\* of HISTORY_MAX lines can be joined)
RECURSIVE Join(_, _)
Join(parts, sep) == IF parts = <<>> THEN <<>>
                    ELSE IF Len(parts) = 1 THEN parts[1]
                    ELSE LET h == Len(parts) \div 2
                         IN  Join(SubSeq(parts, 1, h), sep) \o sep
                             \o Join(SubSeq(parts, h + 1, Len(parts)), sep)

\* String.prototype.split on one separator character (keeps empty pieces).
\* The text is split half by half: the last piece of the first half and the
\* first piece of the second half are one piece of the whole.
RECURSIVE SplitChar(_, _)
SplitChar(s, c) ==
    IF Len(s) = 0 THEN << <<>> >>
    ELSE IF Len(s) = 1 THEN (IF s[1] = c THEN << <<>>, <<>> >> ELSE <<s>>)
    ELSE LET h == Len(s) \div 2
             l == SplitChar(SubSeq(s, 1, h), c)
             r == SplitChar(SubSeq(s, h + 1, Len(s)), c)
         IN  SubSeq(l, 1, Len(l) - 1) \o <<l[Len(l)] \o r[1]>> \o SubSeq(r, 2, Len(r))

\* String.prototype.split(/\s+/): the maximal runs of non-whitespace, with an
\* empty first (last) piece when the text starts (ends) with whitespace
RECURSIVE SplitWsRun(_, _)
SplitWsRun(s, cur) ==
    IF s = <<>> THEN <<cur>>
    ELSE IF IsWs(Head(s)) THEN <<cur>> \o SplitWsRun(TrimStart(s), <<>>)
    ELSE SplitWsRun(Tail(s), Append(cur, Head(s)))

SplitWs(s) == SplitWsRun(s, <<>>)

\* String.prototype.split(/\s/)[0]: the text before the first whitespace
RECURSIVE FirstWord(_)
FirstWord(s) == IF s = <<>> THEN <<>>
                ELSE IF IsWs(Head(s)) THEN <<>>
                ELSE <<Head(s)>> \o FirstWord(Tail(s))

Upper == <<"A","B","C","D","E","F","G","H","I","J","K","L","M",
           "N","O","P","Q","R","S","T","U","V","W","X","Y","Z">>
Lower == <<"a","b","c","d","e","f","g","h","i","j","k","l","m",
           "n","o","p","q","r","s","t","u","v","w","x","y","z">>

LowerChar(c) == IF \E i \in 1..26 : Upper[i] = c
                THEN Lower[CHOOSE i \in 1..26 : Upper[i] = c] ELSE c

\* String.prototype.toLowerCase
ToLowerCase(s) == [i \in 1..Len(s) |-> LowerChar(s[i])]

\* String.prototype.replace(/c/g, by)
RECURSIVE ReplaceAll(_, _, _)
ReplaceAll(s, c, by) == IF s = <<>> THEN <<>>
                        ELSE (IF Head(s) = c THEN by ELSE <<Head(s)>>)
                             \o ReplaceAll(Tail(s), c, by)

\* Array.prototype.slice(-n)
SliceLast(seq, n) == IF Len(seq) <= n THEN seq ELSE SubSeq(seq, Len(seq) - n + 1, Len(seq))

\* Array.prototype.filter((line) => line.length > 0)
NonEmpty(seq) == SelectSeq(seq, LAMBDA line : Len(line) > 0)

RemoveAt(seq, i) == SubSeq(seq, 1, i - 1) \o SubSeq(seq, i + 1, Len(seq))

\* concatenation of a sequence of sequences
RECURSIVE Flatten(_)
Flatten(seqs) == IF seqs = <<>> THEN <<>> ELSE Head(seqs) \o Flatten(Tail(seqs))

(***************************************************************************)
(* History store.  The history file is a text, or NoFile when it does not  *)
(* exist.                                                                  *)
(***************************************************************************)
HISTORY_MAX == 1000

NoFile == <<"<no file>">>

\* loadHistory(): the non-empty lines of the file, in file order
loadHistory(file) == IF file = NoFile THEN <<>> ELSE NonEmpty(SplitChar(file, "\n"))

\* a saveHistory that keeps the first HISTORY_MAX lines, not the last
saveHistoryKeepsOldest(lines) ==
    Join(SubSeq(lines, 1, IF Len(lines) < HISTORY_MAX THEN Len(lines) ELSE HISTORY_MAX),
         <<"\n">>) \o <<"\n">>

\* the text saveHistory(lines) writes over the file
saveHistory(lines) == Join(SliceLast(lines, HISTORY_MAX), <<"\n">>) \o <<"\n">>

(***************************************************************************)
(* Masking engine.                                                         *)
(***************************************************************************)
SENSITIVE_SUBSTRINGS == {
    <<"p","a","s","s","w","o","r","d">>, <<"p","a","s","s","w","d">>,
    <<"s","e","c","r","e","t">>, <<"_","h","a","s","h">>, <<"_","t","o","k","e","n">>,
    <<"a","u","t","h","_","t","o","k","e","n">>, <<"a","p","i","_","k","e","y">>,
    <<"a","p","i","k","e","y">>, <<"a","c","c","e","s","s","_","k","e","y">>,
    <<"p","r","i","v","a","t","e","_","k","e","y">>,
    <<"c","r","e","d","i","t","_","c","a","r","d">>,
    <<"c","r","e","d","i","t","c","a","r","d">>, <<"s","s","n">> }

SENSITIVE_PREFIXES == { <<"e","n","c","r","y","p","t","e","d","_">>,
                        <<"h","a","s","h","e","d","_">> }

EMAIL_SUBSTRINGS == { <<"e","m","a","i","l">>, <<"e","_","m","a","i","l">> }

\* chalk.dim(text): the text between the ANSI dim codes
Dim(text) == <<"ESC[2m">> \o text \o <<"ESC[22m">>

\* chalk.bold(text)
Bold(text) == <<"ESC[1m">> \o text \o <<"ESC[22m">>

\* the bullet character U+2022
BULLET == "U+2022"

MASK_STYLED == Dim(<<BULLET, BULLET, BULLET, BULLET, BULLET, BULLET, BULLET, BULLET>>)

MASK_RAW == <<"*","*","*","*","*","*","*","*">>

\* a columnMaskType that looks for the email substrings first
columnMaskTypeEmailFirst(name) ==
    LET lower == ToLowerCase(name)
    IN  IF \E x \in EMAIL_SUBSTRINGS : Includes(lower, x) THEN "email"
        ELSE IF \E p \in SENSITIVE_PREFIXES : StartsWith(lower, p) THEN "full"
        ELSE IF \E x \in SENSITIVE_SUBSTRINGS : Includes(lower, x) THEN "full"
        ELSE "none"

columnMaskType(name) ==
    LET lower == ToLowerCase(name)
    IN  IF \E p \in SENSITIVE_PREFIXES : StartsWith(lower, p) THEN "full"
        ELSE IF \E x \in SENSITIVE_SUBSTRINGS : Includes(lower, x) THEN "full"
        ELSE IF \E x \in EMAIL_SUBSTRINGS : Includes(lower, x) THEN "email"
        ELSE "none"

isSensitiveColumn(name) == columnMaskType(name) # "none"

\* a maskEmail that shows the last character of a local part of length 1 too
maskEmailShowsLast(value) ==
    LET at     == IndexOf(value, "@", 0)
        local  == SubSeq(value, 1, at)
        domain == SubSeq(value, at + 1, Len(value))
    IN  IF at < 1 THEN MASK_RAW
        ELSE <<local[1], BULLET, BULLET, BULLET, BULLET, local[Len(local)]>> \o domain

maskEmail(value) ==
    LET at     == IndexOf(value, "@", 0)
        local  == SubSeq(value, 1, at)
        domain == SubSeq(value, at + 1, Len(value))
        fill   == <<BULLET, BULLET, BULLET, BULLET>>
    IN  IF at < 1 THEN MASK_RAW
        ELSE IF Len(local) = 1 THEN <<local[1]>> \o fill \o domain
        ELSE <<local[1]>> \o fill \o <<local[Len(local)]>> \o domain

(***************************************************************************)
(* Values of a result set: null, a string, a number or a boolean.          *)
(***************************************************************************)
Null == [t |-> "null", v |-> <<>>]
Str(chars) == [t |-> "str", v |-> chars]
Num(n) == [t |-> "num", v |-> n]
Bool(b) == [t |-> "bool", v |-> b]

Digits == <<"0","1","2","3","4","5","6","7","8","9">>

RECURSIVE NatStr(_)
NatStr(n) == IF n < 10 THEN <<Digits[n + 1]>>
             ELSE NatStr(n \div 10) \o <<Digits[(n % 10) + 1]>>

\* String(val) of a non-null value
String(val) ==
    CASE val.t = "str"  -> val.v
      [] val.t = "num"  -> IF val.v < 0 THEN <<"-">> \o NatStr(0 - val.v) ELSE NatStr(val.v)
      [] val.t = "bool" -> IF val.v THEN <<"t","r","u","e">> ELSE <<"f","a","l","s","e">>
      [] OTHER          -> <<"n","u","l","l">>

NULL_TEXT == <<"N","U","L","L">>

formatValue(val) == IF val = Null THEN Dim(NULL_TEXT) ELSE String(val)

formatValueRaw(val) == IF val = Null THEN NULL_TEXT ELSE String(val)

\* an applyMaskRaw without the case of the full mask
applyMaskRawShowsFull(val, mask) ==
    IF val = Null THEN formatValueRaw(val)
    ELSE IF mask = "email" THEN maskEmail(String(val))
    ELSE formatValueRaw(val)

applyMaskRaw(val, mask) ==
    IF val = Null THEN formatValueRaw(val)
    ELSE IF mask = "full" THEN MASK_RAW
    ELSE IF mask = "email" THEN maskEmail(String(val))
    ELSE formatValueRaw(val)

\* an applyMask without the null check: a null cell is masked like any other
applyMaskMasksNull(val, mask) ==
    IF mask = "full" THEN MASK_STYLED
    ELSE IF mask = "email" THEN Dim(maskEmail(formatValueRaw(val)))
    ELSE formatValue(val)

applyMask(val, mask) ==
    IF val = Null THEN formatValue(val)
    ELSE IF mask = "full" THEN MASK_STYLED
    ELSE IF mask = "email" THEN Dim(maskEmail(String(val)))
    ELSE formatValue(val)

\* a csvEscape that wraps the value and leaves its double quotes single
csvEscapeKeepsQuotes(value) ==
    IF \E i \in 1..Len(value) : value[i] \in {",", "\"", "\n"}
    THEN <<"\"">> \o value \o <<"\"">>
    ELSE value

\* csvEscape of core/format.ts
csvEscape(value) ==
    IF \E i \in 1..Len(value) : value[i] \in {",", "\"", "\n"}
    THEN <<"\"">> \o ReplaceAll(value, "\"", <<"\"", "\"">>) \o <<"\"">>
    ELSE value

\* the markdown cell escape of printResultSet
mdEscape(v) == ReplaceAll(v, "|", <<"\\", "|">>)

(***************************************************************************)
(* Result renderer.  A ResultSet is [columns, rows, rowsAffected]; the     *)
(* renderer returns the texts it passes to logger.log, in order.           *)
(***************************************************************************)
ResultSet(columns, rows, rowsAffected) ==
    [columns |-> columns, rows |-> rows, rowsAffected |-> rowsAffected]

\* a property key that ECMAScript enumerates as an integer index
IsIndexKey(k) == /\ Len(k) >= 1
                 /\ \A i \in 1..Len(k) : \E d \in 1..10 : Digits[d] = k[i]
                 /\ (Len(k) = 1 \/ k[1] # "0")

DigitVal(c) == (CHOOSE d \in 1..10 : Digits[d] = c) - 1

RECURSIVE IndexVal(_)
IndexVal(k) == IF k = <<>> THEN 0
               ELSE 10 * IndexVal(SubSeq(k, 1, Len(k) - 1)) + DigitVal(k[Len(k)])

\* obj[k] = v on an object held as its <<key, value>> pairs in enumeration
\* order: an existing key keeps its place, integer keys come first in
\* ascending order, other keys in insertion order
ObjSet(obj, k, v) ==
    IF \E i \in 1..Len(obj) : obj[i][1] = k
    THEN [i \in 1..Len(obj) |-> IF obj[i][1] = k THEN <<k, v>> ELSE obj[i]]
    ELSE IF IsIndexKey(k)
    THEN LET before == {i \in 1..Len(obj) :
                           IsIndexKey(obj[i][1]) /\ IndexVal(obj[i][1]) < IndexVal(k)}
             n == Cardinality(before)
         IN  SubSeq(obj, 1, n) \o <<<<k, v>>>> \o SubSeq(obj, n + 1, Len(obj))
    ELSE Append(obj, <<k, v>>)

\* the object printResultSet builds for one row in json mode
RECURSIVE jsonRowFrom(_, _, _, _, _)
jsonRowFrom(columns, masks, row, i, obj) ==
    IF i > Len(columns) THEN obj
    ELSE LET val == row[i]
             put == IF val = Null \/ masks[i] = "none" THEN val
                    ELSE Str(applyMaskRaw(val, masks[i]))
         IN  jsonRowFrom(columns, masks, row, i + 1, ObjSet(obj, columns[i], put))

jsonRow(columns, masks, row) == jsonRowFrom(columns, masks, row, 1, <<>>)

\* JSON.stringify of a string
RECURSIVE JsonEscape(_)
JsonEscape(s) ==
    IF s = <<>> THEN <<>>
    ELSE (CASE Head(s) = "\"" -> <<"\\", "\"">>
            [] Head(s) = "\\" -> <<"\\", "\\">>
            [] Head(s) = "\n" -> <<"\\", "n">>
            [] OTHER          -> <<Head(s)>>) \o JsonEscape(Tail(s))

JsonQuote(s) == <<"\"">> \o JsonEscape(s) \o <<"\"">>

\* JSON.stringify of a cell value
JsonValue(val) == IF val.t = "str" THEN JsonQuote(val.v) ELSE String(val)

Spaces(n) == [i \in 1..n |-> " "]

JsonMember(pair) == Spaces(4) \o JsonQuote(pair[1]) \o <<":", " ">> \o JsonValue(pair[2])

JsonObject(obj) ==
    IF obj = <<>> THEN <<"{", "}">>
    ELSE <<"{", "\n">>
         \o Join([i \in 1..Len(obj) |-> JsonMember(obj[i])], <<",", "\n">>)
         \o <<"\n">> \o Spaces(2) \o <<"}">>

\* JSON.stringify(rows, null, 2)
JsonStringify(objs) ==
    IF objs = <<>> THEN <<"[", "]">>
    ELSE <<"[", "\n">>
         \o Join([i \in 1..Len(objs) |-> Spaces(2) \o JsonObject(objs[i])], <<",", "\n">>)
         \o <<"\n", "]">>

\* JSON.parse of a text written by JSON.stringify(rows, null, 2): the objects
\* in order, each as its <<key, value>> pairs in order
JsonParse(text) ==
    LET RECURSIVE StringAt(_, _, _)
        \* the string literal whose characters start at s[i], and the position
        \* after its closing quote
        StringAt(s, i, acc) ==
            IF i > Len(s) THEN <<acc, i>>
            ELSE IF s[i] = "\"" THEN <<acc, i + 1>>
            ELSE IF s[i] = "\\" /\ i < Len(s)
            THEN StringAt(s, i + 2, Append(acc, IF s[i + 1] = "n" THEN "\n" ELSE s[i + 1]))
            ELSE StringAt(s, i + 1, Append(acc, s[i]))
        Scalar(s) ==
            IF s = <<"n","u","l","l">> THEN Null
            ELSE IF s = <<"t","r","u","e">> THEN Bool(TRUE)
            ELSE IF s = <<"f","a","l","s","e">> THEN Bool(FALSE)
            ELSE IF Head(s) = "\"" THEN Str(StringAt(s, 2, <<>>)[1])
            ELSE IF Head(s) = "-" THEN Num(0 - IndexVal(Tail(s)))
            ELSE Num(IndexVal(s))
        Member(line) ==
            LET body == IF line[Len(line)] = ","
                        THEN SubSeq(line, 5, Len(line) - 1)
                        ELSE SubSeq(line, 5, Len(line))
                key  == StringAt(body, 2, <<>>)
            IN  <<key[1], Scalar(SubSeq(body, key[2] + 2, Len(body)))>>
        lines == SplitChar(text, "\n")
        objs[k \in 0..Len(lines)] ==
            IF k = 0 THEN [done |-> <<>>, cur |-> <<>>]
            ELSE LET line == lines[k]
                     prev == objs[k - 1]
                 IN  IF StartsWith(line, Spaces(4))
                     THEN [prev EXCEPT !.cur = Append(@, Member(line))]
                     ELSE IF StartsWith(line, <<" ", " ", "{", "}">>)
                     THEN [done |-> Append(prev.done, <<>>), cur |-> <<>>]
                     ELSE IF StartsWith(line, <<" ", " ", "}">>)
                     THEN [done |-> Append(prev.done, prev.cur), cur |-> <<>>]
                     ELSE prev
    IN  objs[Len(lines)].done

\* cli-table3: the width of a cell is its number of visible characters
IsAnsi(c) == c \in {"ESC[1m", "ESC[2m", "ESC[22m"}

VisLen(text) == Cardinality({i \in 1..Len(text) : ~IsAnsi(text[i])})

Max(S) == CHOOSE x \in S : \A y \in S : y <= x

ColWidth(grid, j) == Max({VisLen(grid[r][j]) : r \in 1..Len(grid)})

PadCell(text, w) == text \o Spaces(w - VisLen(text))

Repeat(c, n) == [i \in 1..n |-> c]

\* new Table({head, ...}) with the rows pushed, then table.toString(): the
\* bordered grid of table mode, or the borderless grid of default mode
\* (every border glyph empty, two spaces between columns, no padding)
TableToString(head, rows, bordered) ==
    LET grid  == <<head>> \o rows
        n     == Len(head)
        w     == [j \in 1..n |-> ColWidth(grid, j)]
        line(r) ==
            IF bordered
            THEN <<"|">> \o Join([j \in 1..n |-> <<" ">> \o PadCell(grid[r][j], w[j]) \o <<" ">>],
                                 <<"|">>) \o <<"|">>
            ELSE Join([j \in 1..n |-> PadCell(grid[r][j], w[j])], <<" ", " ">>)
        rule == <<"+">> \o Join([j \in 1..n |-> Repeat("-", w[j] + 2)], <<"+">>) \o <<"+">>
    IN  IF bordered
        THEN rule \o <<"\n">>
             \o Join([r \in 1..Len(grid) |-> line(r)], <<"\n">> \o rule \o <<"\n">>)
             \o <<"\n">> \o rule
        ELSE Join([r \in 1..Len(grid) |-> line(r)], <<"\n">>)

ROWS_AFFECTED == "Rows affected: "

printResultSet(result, mode, masked) ==
    LET columns == result.columns
        n       == Len(columns)
        masks   == [i \in 1..n |-> IF masked THEN columnMaskType(columns[i]) ELSE "none"]
        rawCell(row, i) ==
            IF masks[i] # "none" /\ row[i] # Null THEN applyMaskRaw(row[i], masks[i])
            ELSE formatValueRaw(row[i])
        styled == [r \in 1..Len(result.rows) |->
                      [i \in 1..n |-> applyMask(result.rows[r][i], masks[i])]]
    IN  CASE mode = "json" ->
               <<JsonStringify([r \in 1..Len(result.rows) |->
                                   jsonRow(columns, masks, result.rows[r])])>>
          [] mode # "json" /\ n = 0 ->
               IF result.rowsAffected > 0
               THEN <<<<ROWS_AFFECTED>> \o NatStr(result.rowsAffected)>>
               ELSE <<>>
          [] mode = "csv" /\ n > 0 ->
               <<Join([i \in 1..n |-> csvEscape(columns[i])], <<",">>)>>
               \o [r \in 1..Len(result.rows) |->
                      Join([i \in 1..n |-> csvEscape(rawCell(result.rows[r], i))], <<",">>)]
          [] mode = "markdown" /\ n > 0 ->
               << <<"|", " ">> \o Join([i \in 1..n |-> mdEscape(columns[i])], <<" ", "|", " ">>)
                    \o <<" ", "|">>,
                  <<"|", " ">> \o Join([i \in 1..n |-> <<"-", "-", "-">>], <<" ", "|", " ">>)
                    \o <<" ", "|">> >>
               \o [r \in 1..Len(result.rows) |->
                      <<"|", " ">>
                      \o Join([i \in 1..n |-> mdEscape(rawCell(result.rows[r], i))],
                              <<" ", "|", " ">>)
                      \o <<" ", "|">>]
          [] mode = "table" /\ n > 0 ->
               <<TableToString(columns, styled, TRUE)>>
          [] OTHER ->
               <<TableToString([i \in 1..n |-> Bold(columns[i])], styled, FALSE)>>

(***************************************************************************)
(* Statement splitter.                                                     *)
(***************************************************************************)
\* a push of the text as it is, not of its trimmed form
PushUntrimmed(statements, current) ==
    IF Len(Trim(current)) > 0 THEN Append(statements, current) ELSE statements

\* a push without the test for an empty statement
PushAlways(statements, current) == Append(statements, Trim(current))

\* statements.push(trimmed) when the trimmed text is not empty
PushTrimmed(statements, current) ==
    IF Len(Trim(current)) > 0 THEN Append(statements, Trim(current)) ELSE statements

\* the scan of splitStatements from 1-based position i on
RECURSIVE splitFrom(_, _, _, _, _)
splitFrom(sql, i, current, inString, statements) ==
    IF i > Len(sql) THEN PushTrimmed(statements, current)
    ELSE LET ch   == sql[i]
             next == IF i + 1 <= Len(sql) THEN sql[i + 1] ELSE "<undefined>"
         IN  IF ~inString /\ ch = "-" /\ next = "-"
             THEN LET nl == IndexOf(sql, "\n", i - 1)
                  IN  IF nl = -1 THEN PushTrimmed(statements, current)
                      ELSE splitFrom(sql, nl + 2, current \o <<"\n">>, inString, statements)
             ELSE IF ch = "'"
             THEN IF inString /\ next = "'"
                  THEN splitFrom(sql, i + 2, current \o <<"'", "'">>, inString, statements)
                  ELSE splitFrom(sql, i + 1, Append(current, ch), ~inString, statements)
             ELSE IF ch = ";" /\ ~inString
             THEN splitFrom(sql, i + 1, <<>>, inString, PushTrimmed(statements, current))
             ELSE splitFrom(sql, i + 1, Append(current, ch), inString, statements)

\* a splitter that cuts at every ";", whether in a string, in a comment or not
splitAtEverySemicolon(sql) ==
    LET parts == SplitChar(sql, ";")
        acc[k \in 0..Len(parts)] ==
            IF k = 0 THEN <<>>
            ELSE IF Len(Trim(parts[k])) > 0 THEN Append(acc[k - 1], Trim(parts[k]))
            ELSE acc[k - 1]
    IN  acc[Len(parts)]

splitStatements(sql) == splitFrom(sql, 1, <<>>, FALSE, <<>>)

(***************************************************************************)
(* The program's environment: files, the database, the line source.        *)
(***************************************************************************)
\* the files that exist, with their content (existsSync / readFileSync)
F_SQL     == <<"f", ".", "s", "q", "l">>
E_SQL     == <<"e", ".", "s", "q", "l">>
MISSING   == <<"m", ".", "s", "q", "l">>

FileNames == {F_SQL, E_SQL}

FileContent(path) ==
    IF path = F_SQL THEN <<"a", ";", "\n", "b", ";", "c">>
    ELSE <<" ", "\n">>

existsSync(path) == path \in FileNames

\* what one client.execute() call can come back with: a failure, or one of
\* these result sets
R_NONE  == ResultSet(<<>>, <<>>, 1)
R_EMPTY == ResultSet(<< <<"n","a","m","e">> >>, <<>>, 0)
R_ROW   == ResultSet(<< <<"n","a","m","e">>, <<"p","a","s","s","w","o","r","d">> >>,
                     << <<Str(<<"t">>), Str(<<"p","w">>)>> >>, 0)

ResultSets == {R_NONE, R_EMPTY, R_ROW}

Ok(rs) == [ok |-> TRUE, rs |-> rs]
Failed == [ok |-> FALSE, rs |-> R_NONE]

DbOutcomes == {Failed} \cup {Ok(rs) : rs \in ResultSets}

\* err.message of a failed execute()
DB_ERROR == <<"<driver error message>">>

(***************************************************************************)
(* Output sink: one entry per logger call or prompt display.               *)
(***************************************************************************)
Log(msg)     == [ch |-> "log", msg |-> msg]
LogError(msg) == [ch |-> "error", msg |-> msg]
LogDim(msg)  == [ch |-> "dim", msg |-> Dim(msg)]
LogWarn(msg) == [ch |-> "warn", msg |-> msg]
LogSuccess(msg) == [ch |-> "success", msg |-> msg]
\* rl.prompt(): the current prompt is written
ShowPrompt(p) == [ch |-> "prompt", msg |-> <<p>>]

LogAll(texts) == [i \in 1..Len(texts) |-> Log(texts[i])]

\* printResultSet(result, mode, masked) is called: the entry holds the
\* arguments, Rendered(entry) the logger.log calls the renderer makes
PrintCall(rs, mode, masked) == <<[ch |-> "print", msg |-> <<rs, mode, masked>>]>>

Rendered(entry) == IF entry.ch = "print"
                   THEN LogAll(printResultSet(entry.msg[1], entry.msg[2], entry.msg[3]))
                   ELSE <<entry>>

PROMPT          == "PROMPT"
PROMPT_CONTINUE == "PROMPT_CONTINUE"
\* the query text rl.question() installs as the prompt
QUESTION        == "Continue? (y/N) "

PRINT_MODES == <<"default", "table", "json", "csv", "markdown">>

\* the mode names as the text the user types
ModeText(m) ==
    CASE m = "default"  -> <<"d","e","f","a","u","l","t">>
      [] m = "table"    -> <<"t","a","b","l","e">>
      [] m = "json"     -> <<"j","s","o","n">>
      [] m = "csv"      -> <<"c","s","v">>
      [] OTHER          -> <<"m","a","r","k","d","o","w","n">>

(***************************************************************************)
(* Suspended line handlers.  A task is one invocation of the line handler  *)
(* (or of the one-shot branch) waiting in an await: for the database       *)
(* (pc = "exec") or for the answer to rl.question (pc = "confirm").        *)
(***************************************************************************)
NoQuery == <<"<no query>">>
NoAnswer == <<"<no answer>">>
Undefined == <<"<undefined>">>

Task(cmd, pc, step, sql, arg, todo, total, ids, ctx, acc, answer) ==
    [cmd |-> cmd, pc |-> pc, step |-> step, sql |-> sql, arg |-> arg, todo |-> todo,
     total |-> total, ids |-> ids, ctx |-> ctx, acc |-> acc, answer |-> answer]

NoCtx == [mode |-> "default", masked |-> TRUE, timing |-> FALSE]

NoTask == Task("none", "none", "none", NoQuery, Undefined, <<>>, 0, {}, NoCtx, <<>>, NoAnswer)

\* the queries of the dot-commands
SqlQuote(name)  == ReplaceAll(name, "'", <<"'", "'">>)
SqlDQuote(name) == ReplaceAll(name, "\"", <<"\"", "\"">>)

Q_TABLES == <<"SELECT name FROM sqlite_master WHERE type='table' ORDER BY name">>
Q_SCHEMA_ALL == <<"SELECT sql FROM sqlite_master WHERE sql IS NOT NULL ORDER BY name">>
Q_SCHEMA(t) == <<"SELECT sql FROM sqlite_master WHERE name='">> \o SqlQuote(t) \o <<"'">>
Q_INDEXES_ALL == <<"SELECT name, tbl_name as 'table' FROM sqlite_master WHERE type='index' ORDER BY tbl_name, name">>
Q_INDEXES(t) == <<"SELECT name, tbl_name as 'table' FROM sqlite_master WHERE type='index' AND tbl_name='">>
                \o SqlQuote(t) \o <<"' ORDER BY name">>
Q_DESCRIBE(t) == <<"SELECT name, type, ... FROM pragma_table_info('">> \o SqlQuote(t) \o <<"')">>
Q_COUNT(t) == <<"SELECT COUNT(*) as count FROM \"">> \o SqlDQuote(t) \o <<"\"">>
Q_DATA(t) == <<"SELECT * FROM \"">> \o SqlDQuote(t) \o <<"\"">>
Q_SIZE_SCHEMA(t) == <<"SELECT sql FROM sqlite_master WHERE name='">> \o SqlQuote(t)
                    \o <<"' AND type='table'">>
Q_ROW_COUNT(t) == <<"SELECT COUNT(*) as row_count FROM \"">> \o SqlDQuote(t) \o <<"\"">>
Q_COLS(t) == <<"SELECT COUNT(*) as c FROM pragma_table_info('">> \o SqlQuote(t) \o <<"')">>
Q_INDEX_COUNT(t) == <<"SELECT COUNT(*) as c FROM sqlite_master WHERE type='index' AND tbl_name='">>
                    \o SqlQuote(t) \o <<"'">>

\* a query that reads every row of a user table
IsScan(q) == q # <<>> /\ q[1] \in { "SELECT COUNT(*) as count FROM \"",
                                    "SELECT * FROM \"",
                                    "SELECT COUNT(*) as row_count FROM \"" }

\* JavaScript truthiness of a cell (undefined when the row has no cell)
Truthy(val) == CASE val.t = "null" -> FALSE
                 [] val.t = "str"  -> val.v # <<>>
                 [] val.t = "num"  -> val.v # 0
                 [] OTHER          -> val.v

\* rs.rows[0]?.[0], Null standing for undefined too (both are falsy, and
\* `?? 0` replaces both)
FirstCell(rs) == IF Len(rs.rows) >= 1 /\ Len(rs.rows[1]) >= 1 THEN rs.rows[1][1] ELSE Null

(***************************************************************************)
(* What a piece of handler code between two awaits does: its result, what  *)
(* it writes, the task it leaves suspended, the session state and history  *)
(* file it leaves, whether it called rl.question, and the message of the   *)
(* error it raised.                                                        *)
(***************************************************************************)
Eff(res, out, task, st, file, ask, err) ==
    [res |-> res, out |-> out, task |-> task, state |-> st, file |-> file,
     ask |-> ask, err |-> err]

Plural(n) == IF n = 1 THEN <<>> ELSE <<"s">>

\* stmt.length > 80 ? stmt.slice(0, 80) + "..." : stmt
Truncate80(stmt) == IF Len(stmt) > 80 THEN SubSeq(stmt, 1, 80) \o <<".", ".", ".">> ELSE stmt

ELAPSED == <<"  ", "<elapsed>", "ms">>

\* the task executeFile suspends in while statement number (total - Len(todo))
\* is executing
FileTask(cmd, path, stmts, ctx) ==
    Task(cmd, "exec", "stmt", Head(stmts), path, Tail(stmts), Len(stmts), {}, ctx, <<>>, NoAnswer)

\* the statements executeFile finds in each file that exists
StatementsOf == [f \in {f \in FileNames : existsSync(f)} |-> splitStatements(FileContent(f))]

\* an executeFile that reports a missing file itself and returns
executeFileReportsMissing(cmd, filePath, st, file) ==
    IF ~existsSync(filePath)
    THEN Eff("handled", <<LogError(<<"File not found: ">> \o filePath)>>, NoTask, st, file,
             FALSE, <<>>)
    ELSE LET statements == StatementsOf[filePath]
         IN  IF Len(statements) = 0
             THEN Eff("handled", <<LogWarn(<<"No SQL statements found in file.">>)>>,
                      NoTask, st, file, FALSE, <<>>)
             ELSE Eff("pending", <<>>, FileTask(cmd, filePath, statements, st),
                      st, file, FALSE, <<>>)

\* executeFile up to its first await
executeFile(cmd, filePath, st, file) ==
    IF ~existsSync(filePath)
    THEN Eff("raised", <<>>, NoTask, st, file, FALSE, <<"File not found: ">> \o filePath)
    ELSE LET statements == StatementsOf[filePath]
             n == Len(statements)
         IN  IF n = 0
             THEN Eff("handled", <<LogWarn(<<"No SQL statements found in file.">>)>>,
                      NoTask, st, file, FALSE, <<>>)
             ELSE Eff("pending",
                      <<LogDim(<<"  Executing ">> \o NatStr(n) \o <<" statement">> \o Plural(n)
                               \o <<" from ">> \o filePath)>>,
                      FileTask(cmd, filePath, statements, st), st, file, FALSE, <<>>)

\* an executeFile that goes on with the next statement after a failure
executeFileGoesOn(t, o, st, file) ==
    IF t.todo # <<>>
    THEN Eff("pending", <<>>, [t EXCEPT !.sql = Head(t.todo), !.todo = Tail(t.todo)],
             st, file, FALSE, <<>>)
    ELSE Eff("handled", <<>>, NoTask, st, file, FALSE, <<>>)

\* executeFile from the return of one execute() on
executeFileResume(t, o, st, file) ==
    IF ~o.ok
    THEN Eff("handled",
             <<LogError(DB_ERROR), LogDim(<<"  Statement: ">> \o Truncate80(t.sql))>>,
             NoTask, st, file, FALSE, <<>>)
    ELSE LET printed == PrintCall(o.rs, t.ctx.mode, t.ctx.masked)
                        \o (IF t.ctx.timing THEN <<Log(Dim(ELAPSED))>> ELSE <<>>)
         IN  IF t.todo # <<>>
             THEN Eff("pending", printed,
                      [t EXCEPT !.sql = Head(t.todo), !.todo = Tail(t.todo)],
                      st, file, FALSE, <<>>)
             ELSE Eff("handled",
                      printed \o <<LogSuccess(NatStr(t.total) \o <<" statement">>
                                              \o Plural(t.total) \o <<" executed.">>)>>,
                      NoTask, st, file, FALSE, <<>>)

\* the task of a dot-command suspended in client.execute(sql)
ExecTask(cmd, step, sql, arg, todo, acc, answer) ==
    Task(cmd, "exec", step, sql, arg, todo, 0, {}, NoCtx, acc, answer)

\* confirmReadQuota(rl, message) called from a line event: the warning is
\* written and rl.question installs the question
Confirm(cmd, arg, message, st, file) ==
    Eff("pending", <<LogWarn(message), ShowPrompt(QUESTION)>>,
        Task(cmd, "confirm", "confirm", NoQuery, arg, <<>>, 0, {}, NoCtx, <<>>, NoAnswer),
        st, file, TRUE, <<>>)

Handled(out, st, file) == Eff("handled", out, NoTask, st, file, FALSE, <<>>)

Pending(out, task, st, file) == Eff("pending", out, task, st, file, FALSE, <<>>)

HELP_TEXT == << <<"  .tables          List all tables">>,
                <<"  .describe TABLE  Show column details for a table">>,
                <<"  .schema [TABLE]  Show CREATE statements">>,
                <<"  .indexes [TABLE] List indexes">>,
                <<"  .count TABLE     Count rows in a table">>,
                <<"  .size TABLE      Show table stats (rows, columns, indexes)">>,
                <<"  .dump [TABLE]    Dump schema and data as SQL">>,
                <<"  .read FILE       Execute SQL statements from a file">>,
                <<"  .mode [MODE]     Set output mode (default, table, json, csv, markdown)">>,
                <<"  .timing          Toggle query execution timing">>,
                <<"  .mask            Enable sensitive column masking">>,
                <<"  .unmask          Disable sensitive column masking">>,
                <<"  .clear-history   Clear command history">>,
                <<"  .quit            Exit the shell">>,
                <<"  .help            Show this help">> >>

\* a lookup that takes a text that is no mode name for the default mode
ModeNamedOrDefault(text) ==
    IF \E i \in 1..5 : ModeText(PRINT_MODES[i]) = text
    THEN PRINT_MODES[CHOOSE i \in 1..5 : ModeText(PRINT_MODES[i]) = text]
    ELSE "default"

\* the PrintMode whose name is the text, "" when it is no mode name
ModeNamed(text) ==
    IF \E i \in 1..5 : ModeText(PRINT_MODES[i]) = text
    THEN PRINT_MODES[CHOOSE i \in 1..5 : ModeText(PRINT_MODES[i]) = text]
    ELSE ""

\* the case of the switch of executeDotCommand a command word selects
DotName(cmd) ==
    CASE cmd = <<".","q","u","i","t">> -> ".quit"
      [] cmd = <<".","e","x","i","t">> -> ".exit"
      [] cmd = <<".","t","a","b","l","e","s">> -> ".tables"
      [] cmd = <<".","s","c","h","e","m","a">> -> ".schema"
      [] cmd = <<".","i","n","d","e","x","e","s">> -> ".indexes"
      [] cmd = <<".","d","e","s","c","r","i","b","e">> -> ".describe"
      [] cmd = <<".","c","o","u","n","t">> -> ".count"
      [] cmd = <<".","d","u","m","p">> -> ".dump"
      [] cmd = <<".","m","o","d","e">> -> ".mode"
      [] cmd = <<".","m","a","s","k">> -> ".mask"
      [] cmd = <<".","u","n","m","a","s","k">> -> ".unmask"
      [] cmd = <<".","t","i","m","i","n","g">> -> ".timing"
      [] cmd = <<".","s","i","z","e">> -> ".size"
      [] cmd = <<".","r","e","a","d">> -> ".read"
      [] cmd = <<".","c","l","e","a","r","-","h","i","s","t","o","r","y">> -> ".clear-history"
      [] cmd = <<".","h","e","l","p">> -> ".help"
      [] OTHER              -> "default"

\* executeDotCommand up to its first await
executeDotCommand(command, st, file) ==
    LET parts  == SplitWs(Trim(command))
        cmd    == DotName(ToLowerCase(parts[1]))
        hasArg == Len(parts) >= 2
        arg    == IF hasArg THEN parts[2] ELSE Undefined
    IN  CASE cmd \in {".quit", ".exit"} ->
               Eff("quit", <<>>, NoTask, st, file, FALSE, <<>>)
          [] cmd = ".tables" ->
               Pending(<<>>, ExecTask(".tables", "query", Q_TABLES, arg, <<>>, <<>>, NoAnswer),
                       st, file)
          [] cmd = ".schema" ->
               Pending(<<>>, ExecTask(".schema", "query",
                                      IF hasArg THEN Q_SCHEMA(arg) ELSE Q_SCHEMA_ALL,
                                      arg, <<>>, <<>>, NoAnswer), st, file)
          [] cmd = ".indexes" ->
               Pending(<<>>, ExecTask(".indexes", "query",
                                      IF hasArg THEN Q_INDEXES(arg) ELSE Q_INDEXES_ALL,
                                      arg, <<>>, <<>>, NoAnswer), st, file)
          [] cmd = ".describe" ->
               IF ~hasArg THEN Handled(<<LogError(<<"Usage: .describe TABLE">>)>>, st, file)
               ELSE Pending(<<>>, ExecTask(".describe", "query", Q_DESCRIBE(arg), arg,
                                           <<>>, <<>>, NoAnswer), st, file)
          [] cmd = ".count" ->
               IF ~hasArg THEN Handled(<<LogError(<<"Usage: .count TABLE">>)>>, st, file)
               ELSE Confirm(".count", arg,
                            <<"This will scan all rows and count against your read quota.">>,
                            st, file)
          [] cmd = ".dump" ->
               Confirm(".dump", arg,
                       IF hasArg
                       THEN <<"This will read all rows from \"">> \o arg
                            \o <<"\" and count against your read quota.">>
                       ELSE <<"This will read all rows from every table and count against your read quota.">>,
                       st, file)
          [] cmd = ".mode" ->
               LET newMode == IF hasArg THEN ModeNamed(ToLowerCase(arg)) ELSE ""
               IN  IF newMode = ""
                   THEN Handled(<<Log(<<"  Current mode: ", st.mode>>),
                                  Log(<<"  Available: ", "default, table, json, csv, markdown">>)>>,
                                st, file)
                   ELSE Handled(<<Log(<<"  Mode set to: ", newMode>>)>>,
                                [st EXCEPT !.mode = newMode], file)
          [] cmd = ".mask" ->
               Handled(<<Log(<<"  Sensitive columns are now masked.">>)>>,
                       [st EXCEPT !.masked = TRUE], file)
          [] cmd = ".unmask" ->
               Handled(<<Log(<<"  Sensitive columns are now visible.">>)>>,
                       [st EXCEPT !.masked = FALSE], file)
          [] cmd = ".timing" ->
               Handled(<<Log(<<"  Query timing ",
                               IF ~st.timing THEN "enabled" ELSE "disabled", ".">>)>>,
                       [st EXCEPT !.timing = ~st.timing], file)
          [] cmd = ".size" ->
               IF ~hasArg THEN Handled(<<LogError(<<"Usage: .size TABLE">>)>>, st, file)
               ELSE Pending(<<>>, ExecTask(".size", "schema", Q_SIZE_SCHEMA(arg), arg,
                                           <<>>, <<>>, NoAnswer), st, file)
          [] cmd = ".read" ->
               IF ~hasArg THEN Handled(<<LogError(<<"Usage: .read FILE">>)>>, st, file)
               ELSE executeFile(".read", arg, st, file)
          [] cmd = ".clear-history" ->
               Handled(<<Log(<<"  History cleared.">>)>>, st, saveHistory(<<>>))
          [] cmd = ".help" ->
               Handled(LogAll(HELP_TEXT), st, file)
          [] OTHER ->
               Eff("unknown", <<>>, NoTask, st, file, FALSE, <<>>)

\* String(r[0]) of a row: "null" for null, "undefined" when the row has no cell
CellString(row) == IF Len(row) = 0 THEN <<"undefined">>
                   ELSE IF row[1] = Null THEN <<"n","u","l","l">> ELSE String(row[1])

\* one value of the INSERT statement .dump writes for a row
DumpValue(val) == IF val = Null THEN NULL_TEXT
                  ELSE IF val.t = "num" THEN String(val)
                  ELSE <<"'">> \o SqlQuote(String(val)) \o <<"'">>

DumpRowLine(tbl, rs, row) ==
    <<"INSERT INTO \"">> \o SqlDQuote(tbl) \o <<"\" VALUES (">>
    \o Join([i \in 1..Len(rs.columns) |-> DumpValue(row[i])], <<",", " ">>) \o <<");">>

\* the head of the loop over the tables of .dump: the schema query of the
\* next table, or the end of the command
DumpNext(t, tables, out, st, file) ==
    IF tables = <<>> THEN Handled(out, st, file)
    ELSE Pending(out, [t EXCEPT !.pc = "exec", !.step = "schema", !.sql = Q_SCHEMA(Head(tables)),
                                !.arg = Head(tables), !.todo = Tail(tables)], st, file)

\* `X ?? 0` in a template string
CountText(rs) == IF FirstCell(rs) = Null THEN <<"0">> ELSE String(FirstCell(rs))

\* a callback of rl.question that takes every answer for a yes
askConfirmAnyAnswer(answer) == TRUE

\* the callback of rl.question in askConfirm
askConfirm(answer) == ToLowerCase(Trim(answer)) = <<"y">>

\* executeDotCommand from the callback of rl.question on
afterConfirm(t, answer, st, file) ==
    LET yes == askConfirm(answer)
        go  == [t EXCEPT !.pc = "exec", !.answer = answer]
    IN  IF ~yes THEN Handled(<<>>, st, file)
        ELSE CASE t.cmd = ".count" ->
                    Pending(<<>>, [go EXCEPT !.step = "count", !.sql = Q_COUNT(t.arg)], st, file)
               [] t.cmd = ".dump" ->
                    IF t.arg # Undefined THEN DumpNext(go, <<t.arg>>, <<>>, st, file)
                    ELSE Pending(<<>>, [go EXCEPT !.step = "list", !.sql = Q_TABLES], st, file)
               [] OTHER ->
                    Pending(<<>>, [go EXCEPT !.step = "count", !.sql = Q_ROW_COUNT(t.arg)],
                            st, file)

\* confirmReadQuota called after an await, when the interface may be closed
\* or may hold another question already: rl.question then throws
\* (canAsk = "throw"), or keeps no callback so that the promise never
\* resolves (canAsk = "never")
ConfirmLate(t, message, canAsk, st, file) ==
    CASE canAsk = "ask" ->
           Eff("pending", <<LogWarn(message), ShowPrompt(QUESTION)>>,
               [t EXCEPT !.pc = "confirm", !.step = "confirm", !.sql = NoQuery],
               st, file, TRUE, <<>>)
      [] canAsk = "throw" ->
           Eff("raised", <<LogWarn(message)>>, NoTask, st, file, FALSE,
               <<"ERR_USE_AFTER_CLOSE">>)
      [] OTHER ->
           Eff("stuck", <<LogWarn(message)>>, NoTask, st, file, FALSE, <<>>)

\* executeDotCommand from the return of one execute() on
dotResume(t, o, canAsk, st, file) ==
    IF t.cmd = ".read" THEN executeFileResume(t, o, st, file)
    ELSE IF ~o.ok THEN Eff("raised", <<>>, NoTask, st, file, FALSE, DB_ERROR)
    ELSE LET print == PrintCall(o.rs, st.mode, st.masked)
         IN
         CASE t.cmd \in {".tables", ".indexes", ".count"} -> Handled(print, st, file)
           [] t.cmd = ".schema" ->
                IF st.mode \in {"json", "csv"} THEN Handled(print, st, file)
                ELSE Handled(Flatten([r \in 1..Len(o.rs.rows) |->
                                 IF Len(o.rs.rows[r]) >= 1 /\ Truthy(o.rs.rows[r][1])
                                 THEN <<Log(String(o.rs.rows[r][1]) \o <<";">>)>>
                                 ELSE <<>>]), st, file)
           [] t.cmd = ".describe" ->
                IF Len(o.rs.rows) = 0
                THEN Handled(<<LogError(<<"Table not found: ">> \o t.arg)>>, st, file)
                ELSE Handled(print, st, file)
           [] t.cmd = ".dump" /\ t.step = "list" ->
                DumpNext(t, [r \in 1..Len(o.rs.rows) |-> CellString(o.rs.rows[r])], <<>>,
                         st, file)
           [] t.cmd = ".dump" /\ t.step = "schema" ->
                Pending(IF Truthy(FirstCell(o.rs))
                        THEN <<Log(String(FirstCell(o.rs)) \o <<";">>)>> ELSE <<>>,
                        [t EXCEPT !.step = "data", !.sql = Q_DATA(t.arg)], st, file)
           [] t.cmd = ".dump" /\ t.step = "data" ->
                DumpNext(t, t.todo,
                         [r \in 1..Len(o.rs.rows) |-> Log(DumpRowLine(t.arg, o.rs, o.rs.rows[r]))]
                         \o <<Log(<<>>)>>, st, file)
           [] t.cmd = ".size" /\ t.step = "schema" ->
                IF ~Truthy(FirstCell(o.rs))
                THEN Handled(<<LogError(<<"Table not found: ">> \o t.arg)>>, st, file)
                ELSE ConfirmLate(t, <<"Row count requires a full table scan and counts against your read quota.">>,
                                 canAsk, st, file)
           [] t.cmd = ".size" /\ t.step = "count" ->
                Pending(<<>>, [t EXCEPT !.step = "cols", !.sql = Q_COLS(t.arg),
                                        !.acc = <<CountText(o.rs)>>], st, file)
           [] t.cmd = ".size" /\ t.step = "cols" ->
                Pending(<<>>, [t EXCEPT !.step = "indexes", !.sql = Q_INDEX_COUNT(t.arg),
                                        !.acc = Append(t.acc, CountText(o.rs))], st, file)
           [] OTHER ->
                Handled(<<Log(<<"  Table:   ">> \o t.arg),
                          Log(<<"  Rows:    ">> \o t.acc[1]),
                          Log(<<"  Columns: ">> \o t.acc[2]),
                          Log(<<"  Indexes: ">> \o CountText(o.rs))>>, st, file)

(***************************************************************************)
(* State.                                                                  *)
(***************************************************************************)
VARIABLES
    sqlArg,     \* the statement or file path given on the command line, or NoArg
    isTTY,      \* process.stdin.isTTY
    main,       \* dbShellCommand.handler: "start", "oneshot", "repl", "returned", "raised"
    state,      \* the session state { mode, masked, timing }
    buffer,     \* the lines of the statement being typed, each with its number
    prompt,     \* the prompt of the readline interface
    oldPrompt,  \* the prompt rl.question() puts back when it is answered
    closed,     \* rl.closed
    history,    \* rl.history, most recent line first
    histFile,   \* the content of the history file
    tasks,      \* the suspended handlers
    nlines,     \* line events so far
    typed,      \* the lines typed so far, in order
    discarded,  \* the numbers of the lines an interrupt has discarded
    submits,    \* for each line typed, the execute() calls made with a statement it is part of
    last,       \* what the last step did
    render,     \* a call of printResultSet on two result sets, and what it wrote
    split,      \* a call of splitStatements on a text, and what it returned
    saved,      \* the list passed to the last call of saveHistory on its own
    masking     \* a call of columnMaskType and maskEmail on a name and a value

vars == <<sqlArg, isTTY, main, state, buffer, prompt, oldPrompt, closed, history,
          histFile, tasks, nlines, typed, discarded, submits, last, render, split, saved, masking>>

NoArg == <<"<no argument>">>

NoRender == [done |-> FALSE]

NoSplit == [done |-> FALSE]

NoSave == <<"<no save>">>

NoMasking == [done |-> FALSE]

Did(ev, cmd, res, outcome, ids, issued, out) ==
    [ev |-> ev, cmd |-> cmd, res |-> res, outcome |-> outcome, ids |-> ids,
     issued |-> issued, out |-> out]

\* the ways the model starts the command: the statement or file argument,
\* whether stdin is a terminal, --mode, --unmask, and the history file found
Launch(sql, tty, mode, unmask, file) ==
    [sql |-> sql, tty |-> tty, mode |-> mode, unmask |-> unmask, file |-> file]

HIST_OLD == <<"o", "\n">>

Launches == {
    Launch(NoArg, TRUE, "default", FALSE, NoFile),
    Launch(NoArg, TRUE, "json", TRUE, HIST_OLD),
    Launch(NoArg, FALSE, "default", FALSE, NoFile),
    Launch(<<"a">>, TRUE, "csv", FALSE, NoFile),
    Launch(F_SQL, FALSE, "default", FALSE, NoFile),
    Launch(F_SQL, TRUE, "markdown", TRUE, HIST_OLD),
    Launch(E_SQL, TRUE, "table", FALSE, NoFile),
    Launch(MISSING, TRUE, "default", FALSE, NoFile) }

\* the process as the command handler is entered
InitShell(l) ==
    /\ sqlArg = l.sql
    /\ isTTY = l.tty
    /\ main = "start"
    /\ state = [mode |-> l.mode, masked |-> ~l.unmask, timing |-> FALSE]
    /\ buffer = <<>>
    /\ prompt = PROMPT
    /\ oldPrompt = PROMPT
    /\ closed = FALSE
    /\ history = <<>>
    /\ histFile = l.file
    /\ tasks = <<>>
    /\ nlines = 0
    /\ typed = <<>>
    /\ discarded = {}
    /\ submits = <<>>
    /\ last = Did("init", "none", "none", "none", {}, <<>>, <<>>)

Init ==
    /\ \E l \in Launches : InitShell(l)
    /\ render = NoRender
    /\ split = NoSplit
    /\ saved = NoSave
    /\ masking = NoMasking

QuestionPending == \E i \in 1..Len(tasks) : tasks[i].pc = "confirm"

\* readline's history: a non-blank line that differs from the most recent
\* entry is put in front; the list keeps historySize entries
AddHistory(hist, line) ==
    IF Len(Trim(line)) = 0 THEN hist
    ELSE IF hist # <<>> /\ hist[1] = line THEN hist
    ELSE LET h == <<line>> \o hist
         IN  IF Len(h) > HISTORY_MAX THEN SubSeq(h, 1, HISTORY_MAX) ELSE h

\* the queries a step issued: that of the task it left in client.execute()
Issued(eff) == IF eff.res = "pending" /\ eff.task.pc = "exec" THEN <<eff.task.sql>> ELSE <<>>

\* the task a step leaves suspended, with the numbers of the lines that
\* made it
Suspended(eff, ids) == [eff.task EXCEPT !.ids = ids]

\* the end of the dot-command branch of the line handler
DotTail(eff, trimmed, p) ==
    CASE eff.res = "handled" -> <<Log(<<>>), ShowPrompt(p)>>
      [] eff.res = "raised"  -> <<LogError(eff.err), Log(<<>>), ShowPrompt(p)>>
      [] eff.res = "unknown" ->
           <<LogError(<<"Unknown command: ">> \o FirstWord(trimmed)),
             LogDim(<<"  Type \".help\" for available commands.">>),
             Log(<<>>), ShowPrompt(p)>>
      [] OTHER -> <<>>

(***************************************************************************)
(* dbShellCommand.handler from the creation of the client on.              *)
(***************************************************************************)
Start ==
    /\ main = "start"
    /\ IF sqlArg # NoArg
       THEN IF EndsWith(sqlArg, <<".", "s", "q", "l">>) /\ existsSync(sqlArg)
            THEN LET eff == executeFile("file1", sqlArg, [state EXCEPT !.timing = FALSE], histFile)
                 IN  /\ main' = IF eff.res = "pending" THEN "oneshot" ELSE "returned"
                     /\ tasks' = IF eff.res = "pending" THEN <<Suspended(eff, {0})>> ELSE <<>>
                     /\ last' = Did("Start", "file1", eff.res, "none", {0}, Issued(eff), eff.out)
                     /\ UNCHANGED history
            ELSE LET t == Task("stmt1", "exec", "stmt", sqlArg, Undefined, <<>>, 1, {0},
                               NoCtx, <<>>, NoAnswer)
                 IN  /\ main' = "oneshot"
                     /\ tasks' = <<t>>
                     /\ last' = Did("Start", "stmt1", "pending", "none", {0}, <<sqlArg>>, <<>>)
                     /\ UNCHANGED history
       ELSE IF ~isTTY
            THEN /\ main' = "raised"
                 /\ last' = Did("Start", "none", "raised", "none", {}, <<>>,
                                <<LogError(<<"Interactive shell requires a TTY.">>)>>)
                 /\ UNCHANGED <<tasks, history>>
            ELSE /\ main' = "repl"
                 /\ history' = loadHistory(histFile)
                 /\ last' = Did("Start", "none", "repl", "none", {}, <<>>,
                                <<Log(<<>>), Log(<<"Connected to database">>),
                                  LogDim(<<"  Type .help for commands, .quit to exit.">>),
                                  Log(<<>>), ShowPrompt(PROMPT)>>)
                 /\ UNCHANGED tasks
    /\ UNCHANGED <<sqlArg, isTTY, state, buffer, prompt, oldPrompt, closed, histFile,
                   nlines, typed, discarded, submits, render, split, saved, masking>>

(***************************************************************************)
(* The readline interface and the handlers the REPL installs on it.        *)
(***************************************************************************)
BufferIds(buf) == {buf[i].id : i \in 1..Len(buf)}

BufferText(buf) == Join([i \in 1..Len(buf) |-> buf[i].text], <<"\n">>)

\* rl.close() with a "close" handler that does not save the history
CloseWithoutSave(hist) ==
    /\ closed' = TRUE
    /\ histFile' = histFile
    /\ main' = "returned"

\* rl.close() on an open interface: the "close" handlers run, which save
\* the history and let the command handler return
CloseInterface(hist) ==
    /\ closed' = TRUE
    /\ histFile' = saveHistory(hist)
    /\ main' = "returned"

\* whether the result of executeDotCommand makes the line handler close
\* the interface
ClosesSession(res) == res = "quit"

\* the dot-command branch of the line handler
DotLine(trimmed, hist, id) ==
    LET eff == executeDotCommand(trimmed, state, histFile)
        cmd == DotName(ToLowerCase(SplitWs(Trim(trimmed))[1]))
    IN  IF ClosesSession(eff.res)
        THEN /\ CloseInterface(hist)
             /\ last' = Did("Line", cmd, eff.res, "none", {id}, <<>>, <<Log(<<>>), Log(<<>>)>>)
             /\ UNCHANGED <<state, tasks, prompt, oldPrompt>>
        ELSE /\ state' = eff.state
             /\ histFile' = eff.file
             /\ tasks' = IF eff.res = "pending" THEN Append(tasks, Suspended(eff, {id}))
                         ELSE tasks
             /\ prompt' = IF eff.ask THEN QUESTION ELSE prompt
             /\ oldPrompt' = IF eff.ask THEN prompt ELSE oldPrompt
             /\ last' = Did("Line", cmd, eff.res, "none", {id}, Issued(eff),
                            <<Log(<<>>)>> \o eff.out \o DotTail(eff, trimmed, prompt))
             /\ UNCHANGED <<closed, main>>

\* the accumulation branch without the statement that empties the buffer
SqlLineKeepsBuffer(line, id) ==
    LET buf == Append(buffer, [id |-> id, text |-> line])
        statement == Trim(BufferText(buf))
        t == Task("stmt", "exec", "stmt", statement, Undefined, <<>>, 1,
                  BufferIds(buf), NoCtx, <<>>, NoAnswer)
    IN  /\ buffer' = buf
        /\ prompt' = IF EndsWith(statement, <<";">>) THEN PROMPT ELSE PROMPT_CONTINUE
        /\ tasks' = IF EndsWith(statement, <<";">>) THEN Append(tasks, t) ELSE tasks
        /\ submits' = [k \in 1..id |-> IF k = id THEN 0 ELSE submits[k]]
        /\ last' = Did("Line", "sql", "pending", "none", BufferIds(buf), <<statement>>,
                       <<Log(<<>>)>>)

\* an accumulation branch that drops a blank line instead of pushing it
SqlLineSkipsBlank(line, id) ==
    LET buf == IF Len(Trim(line)) = 0 THEN buffer
               ELSE Append(buffer, [id |-> id, text |-> line])
        statement == Trim(BufferText(buf))
        Submitted(k) == IF k = id THEN 0 ELSE submits[k]
    IN  IF ~EndsWith(statement, <<";">>)
        THEN /\ buffer' = buf
             /\ prompt' = PROMPT_CONTINUE
             /\ last' = Did("Line", "sql", "accumulated", "none", BufferIds(buf), <<>>,
                            <<ShowPrompt(PROMPT_CONTINUE)>>)
             /\ submits' = Append(submits, 0)
             /\ UNCHANGED tasks
        ELSE LET t == Task("stmt", "exec", "stmt", statement, Undefined, <<>>, 1,
                           BufferIds(buf), NoCtx, <<>>, NoAnswer)
             IN  /\ buffer' = <<>>
                 /\ prompt' = PROMPT
                 /\ tasks' = Append(tasks, t)
                 /\ submits' = [k \in 1..id |-> IF k \in BufferIds(buf) THEN Submitted(k) + 1
                                                ELSE submits[k]]
                 /\ last' = Did("Line", "sql", "pending", "none", BufferIds(buf),
                                <<statement>>, <<Log(<<>>)>>)

\* the accumulation branch of the line handler
SqlLine(line, id) ==
    LET buf == Append(buffer, [id |-> id, text |-> line])
        statement == Trim(BufferText(buf))
        Submitted(k) == IF k = id THEN 0 ELSE submits[k]
    IN  IF ~EndsWith(statement, <<";">>)
        THEN /\ buffer' = buf
             /\ prompt' = PROMPT_CONTINUE
             /\ last' = Did("Line", "sql", "accumulated", "none", BufferIds(buf), <<>>,
                            <<ShowPrompt(PROMPT_CONTINUE)>>)
             /\ submits' = Append(submits, 0)
             /\ UNCHANGED tasks
        ELSE LET t == Task("stmt", "exec", "stmt", statement, Undefined, <<>>, 1,
                           BufferIds(buf), NoCtx, <<>>, NoAnswer)
             IN  /\ buffer' = <<>>
                 /\ prompt' = PROMPT
                 /\ tasks' = Append(tasks, t)
                 /\ submits' = [k \in 1..id |-> IF k \in BufferIds(buf) THEN Submitted(k) + 1
                                                ELSE submits[k]]
                 /\ last' = Did("Line", "sql", "pending", "none", BufferIds(buf),
                                <<statement>>, <<Log(<<>>)>>)

\* a line arrives while no question is pending: readline records it in the
\* history and emits "line"
Line(line) ==
    /\ main = "repl" /\ ~closed
    /\ nlines < MaxLines
    /\ Len(tasks) < MaxTasks
    /\ ~QuestionPending
    /\ nlines' = nlines + 1
    /\ typed' = Append(typed, line)
    /\ history' = AddHistory(history, line)
    /\ LET trimmed == Trim(line)
       IN  IF Len(trimmed) = 0 /\ Len(buffer) = 0
           THEN /\ last' = Did("Line", "blank", "none", "none", {nlines + 1}, <<>>,
                               <<ShowPrompt(prompt)>>)
                /\ submits' = Append(submits, 0)
                /\ UNCHANGED <<state, buffer, prompt, oldPrompt, closed, histFile, tasks, main>>
           ELSE IF Len(buffer) = 0 /\ StartsWith(trimmed, <<".">>)
           THEN /\ DotLine(trimmed, history', nlines + 1)
                /\ submits' = Append(submits, 0)
                /\ UNCHANGED buffer
           ELSE /\ SqlLine(line, nlines + 1)
                /\ UNCHANGED <<state, oldPrompt, closed, histFile, main>>
    /\ UNCHANGED <<sqlArg, isTTY, discarded, render, split, saved, masking>>

\* a line arrives while a question is pending: readline records it in the
\* history, puts the old prompt back and hands the line to the callback of
\* rl.question, which resumes the dot-command
Answer(line) ==
    /\ main = "repl" /\ ~closed
    /\ nlines < MaxLines
    /\ \E i \in 1..Len(tasks) :
         /\ tasks[i].pc = "confirm"
         /\ LET eff == afterConfirm(tasks[i], line, state, histFile)
                ids == tasks[i].ids \cup {nlines + 1}
            IN  /\ tasks' = IF eff.res = "pending" THEN [tasks EXCEPT ![i] = Suspended(eff, ids)]
                            ELSE RemoveAt(tasks, i)
                /\ last' = Did("Answer", tasks[i].cmd, eff.res, "none", ids, Issued(eff),
                               eff.out \o DotTail(eff, <<>>, oldPrompt))
    /\ nlines' = nlines + 1
    /\ typed' = Append(typed, line)
    /\ submits' = Append(submits, 0)
    /\ history' = AddHistory(history, line)
    /\ prompt' = oldPrompt
    /\ UNCHANGED <<sqlArg, isTTY, main, state, buffer, oldPrompt, closed, histFile, discarded,
                   render, split, saved, masking>>

\* a SIGINT handler that leaves the buffer as it is
SigintKeepsBuffer ==
    /\ main = "repl" /\ ~closed
    /\ last' = Did("Sigint", "none", "discarded", "none", BufferIds(buffer), <<>>,
                   <<Log(<<>>), ShowPrompt(PROMPT)>>)
    /\ discarded' = discarded \cup BufferIds(buffer)
    /\ prompt' = PROMPT
    /\ UNCHANGED <<sqlArg, isTTY, state, oldPrompt, history, tasks, nlines, typed, submits,
                   render, split, saved, masking, buffer, closed, histFile, main>>

\* the SIGINT handler
Sigint ==
    /\ main = "repl" /\ ~closed
    /\ IF Len(buffer) > 0
       THEN /\ buffer' = <<>>
            /\ discarded' = discarded \cup BufferIds(buffer)
            /\ prompt' = PROMPT
            /\ last' = Did("Sigint", "none", "discarded", "none", BufferIds(buffer), <<>>,
                           <<Log(<<>>), ShowPrompt(PROMPT)>>)
            /\ UNCHANGED <<closed, histFile, main>>
       ELSE /\ CloseInterface(history)
            /\ last' = Did("Sigint", "none", "closed", "none", {}, <<>>, <<Log(<<>>)>>)
            /\ UNCHANGED <<buffer, discarded, prompt>>
    /\ UNCHANGED <<sqlArg, isTTY, state, oldPrompt, history, tasks, nlines, typed, submits,
                   render, split, saved, masking>>

\* end of input (Ctrl-D on an empty line, or the end of stdin): readline
\* closes the interface
Eof ==
    /\ main = "repl" /\ ~closed
    /\ CloseInterface(history)
    /\ last' = Did("Eof", "none", "closed", "none", {}, <<>>, <<Log(<<>>)>>)
    /\ UNCHANGED <<sqlArg, isTTY, state, buffer, prompt, oldPrompt, history, tasks, nlines,
                   typed, discarded, submits, render, split, saved, masking>>

\* what rl.question() does when it is called after an await
AskOptions == IF closed THEN {"throw", "never"}
              ELSE IF QuestionPending THEN {"never"}
              ELSE {"ask"}

Outcome(o) == IF o.ok THEN "ok" ELSE "failed"

\* the execute() call of task i comes back with outcome o
DbReturn(i, o) ==
    /\ main # "raised"
    /\ tasks[i].pc = "exec"
    /\ LET t == tasks[i]
       IN  CASE t.cmd = "stmt" ->
                  /\ tasks' = RemoveAt(tasks, i)
                  /\ last' = Did("DbReturn", "stmt", "done", Outcome(o), t.ids, <<>>,
                                 IF o.ok
                                 THEN PrintCall(o.rs, state.mode, state.masked)
                                      \o (IF state.timing THEN <<Log(Dim(ELAPSED))>> ELSE <<>>)
                                      \o <<Log(<<>>), ShowPrompt(prompt)>>
                                 ELSE <<Log(<<>>), LogError(DB_ERROR), Log(<<>>),
                                        ShowPrompt(prompt)>>)
                  /\ UNCHANGED <<main, prompt, oldPrompt>>
             [] t.cmd = "stmt1" ->
                  /\ tasks' = <<>>
                  /\ main' = IF o.ok THEN "returned" ELSE "raised"
                  /\ last' = Did("DbReturn", "stmt1", IF o.ok THEN "done" ELSE "raised",
                                 Outcome(o), t.ids, <<>>,
                                 IF o.ok
                                 THEN PrintCall(o.rs, state.mode, state.masked)
                                 ELSE <<LogError(DB_ERROR)>>)
                  /\ UNCHANGED <<prompt, oldPrompt>>
             [] t.cmd = "file1" ->
                  LET eff == executeFileResume(t, o, state, histFile)
                  IN  /\ tasks' = IF eff.res = "pending" THEN <<eff.task>> ELSE <<>>
                      /\ main' = IF eff.res = "pending" THEN "oneshot"
                                 ELSE IF eff.res = "raised" THEN "raised" ELSE "returned"
                      /\ last' = Did("DbReturn", "file1", eff.res, Outcome(o), t.ids,
                                     Issued(eff), eff.out)
                      /\ UNCHANGED <<prompt, oldPrompt>>
             [] OTHER ->
                  \E canAsk \in AskOptions :
                    LET eff == dotResume(t, o, canAsk, state, histFile)
                    IN  /\ tasks' = IF eff.res = "pending" THEN [tasks EXCEPT ![i] = eff.task]
                                    ELSE RemoveAt(tasks, i)
                        /\ prompt' = IF eff.ask THEN QUESTION ELSE prompt
                        /\ oldPrompt' = IF eff.ask THEN prompt ELSE oldPrompt
                        /\ last' = Did("DbReturn", t.cmd, eff.res, Outcome(o), t.ids,
                                       Issued(eff),
                                       eff.out \o DotTail(eff, <<>>, prompt)
                                       \o (IF eff.res = "stuck" /\ ~closed
                                           THEN <<ShowPrompt(prompt)>> ELSE <<>>))
                        /\ UNCHANGED main
    /\ UNCHANGED <<sqlArg, isTTY, state, buffer, closed, history, histFile, nlines, typed,
                   discarded, submits, render, split, saved, masking>>

\* the lines the user types
LINE == [ a |-> <<"a">>,
         semi |-> <<";">>,
         b |-> <<"b", ";">>,
         blank |-> <<" ">>,
         quit |-> <<".", "q", "u", "i", "t">>,
         exit |-> <<".", "E", "X", "I", "T">>,
         unknown |-> <<".", "x">>,
         tables |-> <<".", "t", "a", "b", "l", "e", "s">>,
         count |-> <<".", "c", "o", "u", "n", "t", " ", "t">>,
         dump |-> <<".", "d", "u", "m", "p">>,
         size |-> <<".", "s", "i", "z", "e", " ", "t">>,
         read |-> <<".", "r", "e", "a", "d", " ">> \o F_SQL,
         readMissing |-> <<".", "r", "e", "a", "d", " ">> \o MISSING,
         yes |-> <<"Y", " ">>,
         no |-> <<"n">>,
         clear |-> <<".", "c", "l", "e", "a", "r", "-", "h", "i", "s", "t", "o", "r", "y">>,
         open |-> <<"'", "a", ";">>,
         quote |-> <<"'">>,
         comment |-> <<"-", "-", " ", "c", ";">>,
         modeJson |-> <<".", "M", "O", "D", "E", " ", "J", "s", "o", "n">>,
         modeBad |-> <<".", "m", "o", "d", "e", " ", "x">>,
         mode |-> <<".", "m", "o", "d", "e">>,
         mask |-> <<".", "m", "a", "s", "k">>,
         unmask |-> <<".", "U", "n", "m", "a", "s", "k">>,
         timing |-> <<".", "t", "i", "m", "i", "n", "g">> ]

\* statements, blank lines, the commands that end the session and those
\* that fail
Lines == {LINE.a, LINE.semi, LINE.b, LINE.blank, LINE.quit, LINE.exit, LINE.unknown, LINE.tables, LINE.readMissing}

Next ==
    \/ Start
    \/ \E line \in Lines : Line(line)
    \/ Sigint
    \/ Eof
    \/ \E i \in 1..Len(tasks) : \E o \in DbOutcomes : DbReturn(i, o)

Spec == Init /\ [][Next]_vars

\* statements and the command that executes a file
FileLines == {LINE.a, LINE.b, LINE.read, LINE.readMissing}

NextFile ==
    \/ Start
    \/ \E line \in FileLines : Line(line)
    \/ Sigint
    \/ Eof
    \/ \E i \in 1..Len(tasks) : \E o \in DbOutcomes : DbReturn(i, o)

SpecFile == Init /\ [][NextFile]_vars

\* the commands that ask for confirmation, the answers, and a statement
ScanLines == {LINE.b, LINE.count, LINE.dump, LINE.size, LINE.yes, LINE.no}

NextScan ==
    \/ Start
    \/ \E line \in ScanLines : Line(line)
    \/ \E line \in ScanLines : Answer(line)
    \/ Sigint
    \/ Eof
    \/ \E i \in 1..Len(tasks) : \E o \in DbOutcomes : DbReturn(i, o)

SpecScan == Init /\ [][NextScan]_vars

\* complete statements, the command that clears the history and the command
\* that ends the session
ClearLines == {LINE.b, LINE.semi, LINE.clear, LINE.quit}

NextClear ==
    \/ Start
    \/ \E line \in ClearLines : Line(line)
    \/ Sigint
    \/ Eof
    \/ \E i \in 1..Len(tasks) : \E o \in DbOutcomes : DbReturn(i, o)

SpecClear == Init /\ [][NextClear]_vars

\* statement text with a ";" in a string that is still open or in a comment
QuoteLines == {LINE.a, LINE.semi, LINE.open, LINE.quote, LINE.comment}

NextQuote ==
    \/ Start
    \/ \E line \in QuoteLines : Line(line)
    \/ Sigint
    \/ Eof
    \/ \E i \in 1..Len(tasks) : \E o \in DbOutcomes : DbReturn(i, o)

SpecQuote == Init /\ [][NextQuote]_vars

\* the commands that change the session state, those that do not, and a
\* statement
StateLines == {LINE.semi, LINE.modeJson, LINE.modeBad, LINE.mode, LINE.mask, LINE.unmask,
               LINE.timing, LINE.quit}

NextState ==
    \/ Start
    \/ \E line \in StateLines : Line(line)
    \/ Sigint
    \/ Eof
    \/ \E i \in 1..Len(tasks) : \E o \in DbOutcomes : DbReturn(i, o)

SpecState == Init /\ [][NextState]_vars

(***************************************************************************)
(* printResultSet on its own: it is called on two result sets that differ  *)
(* in at most one cell.                                                    *)
(***************************************************************************)
MaxRows == 1

PrintColumns == { <<>>,
                  << <<"i","d">> >>,
                  << <<"P","a","s","s","w","d">> >>,
                  << <<"i","d">>, <<"a","p","i","_","k","e","y">> >>,
                  << <<"h","a","s","h","e","d","_","p">>, <<"e","m","a","i","l">> >>,
                  << <<"s","e","c","r","e","t">>, <<"s","e","c","r","e","t">> >>,
                  << <<"1">>, <<"x","_","t","o","k","e","n">> >> }

PrintValues == { Null, Str(<<"p","w">>), Str(<<"a","@","b">>), Num(7) }

PrintInput(columns, rows, r, i, val, mode, masked) ==
    [done |-> FALSE, mode |-> mode, masked |-> masked,
     a |-> ResultSet(columns, rows, IF columns = <<>> THEN 1 ELSE 0),
     b |-> ResultSet(columns,
                     IF r \in 1..Len(rows) /\ i \in 1..Len(columns)
                     THEN [rows EXCEPT ![r][i] = val] ELSE rows,
                     IF columns = <<>> THEN 1 ELSE 0),
     outA |-> <<>>, outB |-> <<>>]

InitPrint ==
    /\ InitShell(Launch(NoArg, TRUE, "default", FALSE, NoFile))
    /\ split = NoSplit
    /\ saved = NoSave
    /\ masking = NoMasking
    /\ \E columns \in PrintColumns, n \in 0..MaxRows :
         \E rows \in [1..n -> [1..Len(columns) -> PrintValues]] :
           \E r \in 1..(IF n = 0 THEN 1 ELSE n), i \in 1..(IF columns = <<>> THEN 1 ELSE Len(columns)) :
             \E val \in PrintValues, m \in 1..5, masked \in BOOLEAN :
               render = PrintInput(columns, rows, r, i, val, PRINT_MODES[m], masked)

\* printResultSet is called on each of the two result sets
Render ==
    /\ ~render.done
    /\ render' = [render EXCEPT !.done = TRUE,
                                !.outA = printResultSet(render.a, render.mode, render.masked),
                                !.outB = printResultSet(render.b, render.mode, render.masked)]
    /\ UNCHANGED <<sqlArg, isTTY, main, state, buffer, prompt, oldPrompt, closed, history,
                   histFile, tasks, nlines, typed, discarded, submits, last, split, saved, masking>>

NextPrint == Render

SpecPrint == InitPrint /\ [][NextPrint]_vars

(***************************************************************************)
(* printResultSet on the result of a statement that returns no columns, in *)
(* every mode, and in csv mode on names and values that hold a comma, a    *)
(* double quote or a newline.                                              *)
(***************************************************************************)
MaxAffected == 2

CsvColumns == { << <<"i", ",", "d">> >>,
                << <<"e", "m", "a", "i", "l">>, <<"\"", "q", "\"">> >> }

CsvValues == { Null, Num(7), Str(<<",", "@", "b">>), Str(<<"a", "\"">>), Str(<<"x", "\n">>) }

InitCsv ==
    /\ InitShell(Launch(NoArg, TRUE, "default", FALSE, NoFile))
    /\ split = NoSplit
    /\ saved = NoSave
    /\ masking = NoMasking
    /\ \/ \E affected \in 0..MaxAffected, m \in 1..5, masked \in BOOLEAN :
            render = [PrintInput(<<>>, <<>>, 1, 1, Null, PRINT_MODES[m], masked)
                        EXCEPT !.a.rowsAffected = affected, !.b.rowsAffected = affected]
       \/ \E columns \in CsvColumns, n \in 0..MaxRows :
            \E rows \in [1..n -> [1..Len(columns) -> CsvValues]] :
              \E r \in 1..(IF n = 0 THEN 1 ELSE n), i \in 1..Len(columns) :
                \E val \in CsvValues, masked \in BOOLEAN :
                  render = PrintInput(columns, rows, r, i, val, "csv", masked)

SpecCsv == InitCsv /\ [][NextPrint]_vars

(***************************************************************************)
(* splitStatements on its own: it is called on every text of at most       *)
(* MaxLen characters of SplitAlphabet.                                     *)
(***************************************************************************)
MaxLen == 5

SplitAlphabet == {"a", ";", "'", "-", " ", "\n"}

InitSplit ==
    /\ InitShell(Launch(NoArg, TRUE, "default", FALSE, NoFile))
    /\ render = NoRender
    /\ saved = NoSave
    /\ masking = NoMasking
    /\ \E n \in 0..MaxLen : \E sql \in [1..n -> SplitAlphabet] :
         split = [done |-> FALSE, sql |-> sql, out |-> <<>>]

Split ==
    /\ ~split.done
    /\ split' = [split EXCEPT !.done = TRUE, !.out = splitStatements(split.sql)]
    /\ UNCHANGED <<sqlArg, isTTY, main, state, buffer, prompt, oldPrompt, closed, history,
                   histFile, tasks, nlines, typed, discarded, submits, last, render, saved, masking>>

NextSplit == Split

SpecSplit == InitSplit /\ [][NextSplit]_vars

(***************************************************************************)
(* saveHistory and loadHistory on their own: lists of history lines are    *)
(* saved, one after the other, and the file is loaded.  The lists are the  *)
(* short ones over two lines and the long ones of HISTORY_MAX - 1 to       *)
(* HISTORY_MAX + MaxOver numbered lines.                                   *)
(***************************************************************************)
MaxOver == 2

StoreLists ==
    LET short == { <<"a">>, <<" ", "b">> }
    IN  {<<>>} \cup {<<x>> : x \in short} \cup {<<x, y>> : x, y \in short}
        \cup {[i \in 1..n |-> NatStr(i)] : n \in (HISTORY_MAX - 1)..(HISTORY_MAX + MaxOver)}

InitStore ==
    /\ \E file \in {NoFile, HIST_OLD} :
         InitShell(Launch(NoArg, TRUE, "default", FALSE, file))
    /\ render = NoRender
    /\ split = NoSplit
    /\ saved = NoSave
    /\ masking = NoMasking

\* saveHistory(lines): writeFileSync replaces the content of the file
Save(lines) ==
    /\ histFile' = saveHistory(lines)
    /\ saved' = lines
    /\ last' = Did("Save", "none", "none", "none", {}, <<>>, <<>>)
    /\ UNCHANGED <<sqlArg, isTTY, main, state, buffer, prompt, oldPrompt, closed, history,
                   tasks, nlines, typed, discarded, submits, render, split, masking>>

\* loadHistory(): history holds what it returned
Load ==
    /\ history' = loadHistory(histFile)
    /\ last' = Did("Load", "none", "none", "none", {}, <<>>, <<>>)
    /\ UNCHANGED <<sqlArg, isTTY, main, state, buffer, prompt, oldPrompt, closed, histFile,
                   tasks, nlines, typed, discarded, submits, render, split, saved, masking>>

NextStore ==
    \/ \E lines \in StoreLists : Save(lines)
    \/ Load

SpecStore == InitStore /\ [][NextStore]_vars

(***************************************************************************)
(* The masking engine on its own: columnMaskType and isSensitiveColumn are *)
(* called on a column name made of at most two fragments, maskEmail on a   *)
(* value of at most MaxValue characters.                                   *)
(***************************************************************************)
MaxValue == 4

NameFragments == { <<"i","d">>, <<"E","m","a","i","l">>, <<"e","_","m","a","i","l">>,
                   <<"_","H","a","s","h">>, <<"h","a","s","h","e","d","_">>,
                   <<"S","S","N">>, <<"_">> }

MaskNames == {<<>>} \cup NameFragments \cup {x \o y : x, y \in NameFragments}

InitMask ==
    /\ InitShell(Launch(NoArg, TRUE, "default", FALSE, NoFile))
    /\ render = NoRender
    /\ split = NoSplit
    /\ saved = NoSave
    /\ \E name \in MaskNames, n \in 0..MaxValue :
         \E value \in [1..n -> {"a", "b", "@"}] :
           masking = [done |-> FALSE, name |-> name, value |-> value, type |-> "",
                      sensitive |-> FALSE, email |-> <<>>]

Mask ==
    /\ ~masking.done
    /\ masking' = [masking EXCEPT !.done = TRUE,
                                  !.type = columnMaskType(masking.name),
                                  !.sensitive = isSensitiveColumn(masking.name),
                                  !.email = maskEmail(masking.value)]
    /\ UNCHANGED <<sqlArg, isTTY, main, state, buffer, prompt, oldPrompt, closed, history,
                   histFile, tasks, nlines, typed, discarded, submits, last, render, split,
                   saved>>

NextMask == Mask

SpecMask == InitMask /\ [][NextMask]_vars

(***************************************************************************)
(* Properties of the read-eval-print loop.                                 *)
(***************************************************************************)

\* C1: lines accumulate in the buffer and nothing is executed while the
\* joined, trimmed buffer does not end with ";"; the line that makes it end
\* with ";" submits the whole joined buffer as one statement in exactly one
\* execute() call and empties the buffer.  Hence the buffer never holds a
\* complete statement or a line that was submitted, every statement in
\* execute() is the trimmed join of the lines typed for it and ends with ";",
\* and no line is part of more than one execute() call.
C1_AccumulateThenExecuteOnce ==
    LET Text(ids) ==
            LET sel[k \in 0..Len(typed)] ==
                    IF k = 0 THEN <<>>
                    ELSE IF k \in ids THEN Append(sel[k - 1], typed[k]) ELSE sel[k - 1]
            IN  Trim(Join(sel[Len(typed)], <<"\n">>))
        InFlight(ids) == {i \in 1..Len(tasks) : tasks[i].cmd = "stmt" /\ tasks[i].ids = ids}
    IN  /\ buffer # <<>> => ~EndsWith(Trim(BufferText(buffer)), <<";">>)
        /\ \A k \in 1..Len(submits) : submits[k] <= 1
        /\ \A k \in BufferIds(buffer) : submits[k] = 0
        /\ \A i \in 1..Len(tasks) :
             tasks[i].cmd = "stmt" =>
               /\ tasks[i].sql = Text(tasks[i].ids)
               /\ EndsWith(tasks[i].sql, <<";">>)
               /\ \A j \in 1..Len(tasks) :
                    (j # i /\ tasks[j].cmd = "stmt") => tasks[i].ids \cap tasks[j].ids = {}
        /\ (last.ev = "Line" /\ last.cmd = "sql") =>
             IF EndsWith(Text(last.ids), <<";">>)
             THEN /\ buffer = <<>>
                  /\ Cardinality(InFlight(last.ids)) = 1
                  /\ \A k \in last.ids : submits[k] = 1
             ELSE /\ BufferIds(buffer) = last.ids
                  /\ Trim(BufferText(buffer)) = Text(last.ids)
                  /\ InFlight(last.ids) = {}

\* the line ";" typed after the line "a" has submitted the statement "a\n;"
C1_Witness ==
    /\ last.ev = "Line" /\ last.cmd = "sql"
    /\ typed = <<LINE.a, LINE.semi>>
    /\ Len(tasks) = 1 /\ tasks[1].sql = <<"a", "\n", ";">> /\ tasks[1].pc = "exec"
    /\ buffer = <<>>

\* C2: at every moment of a session at most one execute() call is in flight
C2_OneExecuteInFlight ==
    Cardinality({i \in 1..Len(tasks) : tasks[i].pc = "exec"}) <= 1

\* C3: after the failure of an interactively entered statement, an error
\* raised by a dot-command, or an unrecognised dot-command, the session, when
\* it is open, has an empty buffer and the primary prompt
C3_AwaitingInputAfterFailure ==
    (/\ main = "repl" /\ ~closed
     /\ \/ last.cmd = "stmt" /\ last.outcome = "failed"
        \/ last.res \in {"raised", "unknown"}) =>
        buffer = <<>> /\ prompt = PROMPT

\* C4: an interrupt with a non-empty buffer empties it, sets the primary
\* prompt and leaves the session open; an interrupt with an empty buffer
\* closes the session; an interrupt leaves the queries in flight alone; and
\* no discarded line is ever part of an execute() call
C4_Interrupt ==
    [][ /\ (last'.ev = "Sigint" /\ last' # last) =>
             /\ tasks' = tasks
             /\ IF buffer # <<>>
                THEN /\ buffer' = <<>> /\ prompt' = PROMPT
                     /\ ~closed' /\ main' = "repl"
                     /\ BufferIds(buffer) \subseteq discarded'
                ELSE closed' /\ main' = "returned"
        /\ discarded \subseteq discarded'
        /\ \A k \in discarded' : submits'[k] = 0
        /\ \A i \in 1..Len(tasks') :
             tasks'[i].cmd = "stmt" => tasks'[i].ids \cap discarded' = {}
      ]_vars

\* an interrupt has discarded the line "a" while the statement "b;" was in
\* flight
C4_Witness ==
    /\ last.ev = "Sigint" /\ last.res = "discarded"
    /\ typed = <<LINE.b, LINE.a>>
    /\ discarded = {2}
    /\ Len(tasks) = 1 /\ tasks[1].pc = "exec"
    /\ ~closed

\* C5: however the session closes, the history file holds what saveHistory
\* writes for the in-memory history, and the command handler returns only
\* after that
C5_HistorySavedOnClose ==
    /\ closed => histFile = saveHistory(history) /\ main = "returned"
    /\ (sqlArg = NoArg /\ main = "returned") => closed /\ histFile = saveHistory(history)

\* an interrupt with an empty buffer has closed a session that has history
C5_Witness ==
    /\ closed /\ last.ev = "Sigint" /\ last.res = "closed"
    /\ Len(history) >= 2
    /\ histFile = saveHistory(history)

(***************************************************************************)
(* Properties of file execution.                                           *)
(***************************************************************************)

\* C6: file execution issues one execute() call per statement of the
\* splitter, in file order, and halts at the first failure.  The statement
\* a run has in execute() is statement k of the file, with the statements
\* after k still to do; a run starts with statement 1; a run goes from
\* statement k to statement k + 1 only when the execute() of statement k has
\* returned without error; and the run whose statement failed has ended.
C6_FileInOrderHaltsOnFailure ==
    [][ LET IsFile(t) == t.cmd \in {".read", "file1"}
            K(t) == t.total - Len(t.todo)
        IN  /\ \A i \in 1..Len(tasks') :
                 IsFile(tasks'[i]) =>
                   LET t == tasks'[i]
                       stmts == StatementsOf[t.arg]
                   IN  /\ t.pc = "exec" /\ t.total = Len(stmts)
                       /\ K(t) \in 1..Len(stmts)
                       /\ t.sql = stmts[K(t)]
                       /\ t.todo = SubSeq(stmts, K(t) + 1, Len(stmts))
                       /\ IF \E j \in 1..Len(tasks) : tasks[j].ids = t.ids
                          THEN LET u == tasks[CHOOSE j \in 1..Len(tasks) : tasks[j].ids = t.ids]
                               IN  \/ u = t
                                   \/ /\ K(t) = K(u) + 1
                                      /\ last'.ev = "DbReturn" /\ last'.ids = t.ids
                                      /\ last'.outcome = "ok"
                          ELSE /\ K(t) = 1
                               /\ last'.ev \in {"Line", "Start"} /\ last'.ids = t.ids
                               /\ t.ids \in {{0}, {nlines'}}
                               /\ nlines' = nlines + (IF t.ids = {0} THEN 0 ELSE 1)
            /\ (last'.ev = "DbReturn" /\ IsFile(last') /\ last'.outcome = "failed") =>
                 /\ last'.issued = <<>>
                 /\ \A i \in 1..Len(tasks') : tasks'[i].ids # last'.ids
      ]_vars

\* the second statement of a file run by .read has failed
C6_Witness ==
    /\ last.ev = "DbReturn" /\ last.cmd = ".read" /\ last.outcome = "failed"
    /\ Len(last.out) >= 2
    /\ last.out[Len(last.out) - 2] =
         LogDim(<<"  Statement: ">> \o StatementsOf[F_SQL][2])
    /\ \A i \in 1..Len(tasks) : tasks[i].ids # last.ids

\* C7 as stated: dispatching .read never raises an error to the line handler
C7_ReadNeverRaises ==
    last.cmd = ".read" => last.res # "raised"

\* C7 amended: a statement of the file that fails is reported by executeFile
\* and dispatch returns handled; a file that does not exist makes executeFile
\* raise "File not found", which the line handler reports before it shows
\* the prompt again, and nothing else makes .read raise
C7_ReadRaisesOnlyFileNotFound ==
    last.cmd = ".read" =>
      LET line == typed[CHOOSE k \in last.ids : TRUE]
          path == SplitWs(Trim(line))[2]
          n == Len(last.out)
      IN  /\ last.outcome = "failed" =>
               /\ last.res = "handled"
               /\ last.out[1] = LogError(DB_ERROR)
               /\ last.out[n] = ShowPrompt(prompt)
          /\ last.res = "raised" <=> (last.ev = "Line" /\ ~existsSync(path))
          /\ last.res = "raised" =>
               /\ last.out[n - 2] = LogError(<<"File not found: ">> \o path)
               /\ last.out[n] = ShowPrompt(prompt)
               /\ ~closed /\ main = "repl"

\* .read of a file that does not exist has raised to the line handler
C7_Witness ==
    /\ last.ev = "Line" /\ last.cmd = ".read" /\ last.res = "raised"
    /\ typed[Len(typed)] = LINE.readMissing
    /\ ~closed /\ main = "repl"

\* C8: when a statement executed in one-shot mode fails, the command
\* handler ends by raising an error
C8_OneShotFailureRaises ==
    (last.cmd \in {"stmt1", "file1"} /\ last.outcome = "failed") => main = "raised"

(***************************************************************************)
(* Properties of the commands that scan a table.                           *)
(***************************************************************************)

\* C9: a scan query of .count, .dump or .size is in execute() only after
\* the question has been answered with yes; an answer that is not a yes
\* issues nothing, ends the command and makes dispatch return handled
C9_ScanOnlyAfterYes ==
    LET Yes(answer) == \E i \in 1..Len(answer) :
                          /\ answer[i] \in {"y", "Y"}
                          /\ \A j \in 1..Len(answer) : j # i => IsWs(answer[j])
    IN  /\ \A i \in 1..Len(tasks) :
             (/\ tasks[i].cmd \in {".count", ".dump", ".size"}
              /\ tasks[i].pc = "exec" /\ IsScan(tasks[i].sql)) =>
                 /\ tasks[i].answer # NoAnswer
                 /\ Yes(tasks[i].answer)
                 /\ \E k \in tasks[i].ids : typed[k] = tasks[i].answer
        /\ \A i \in 1..Len(tasks) :
             tasks[i].pc = "confirm" => tasks[i].sql = NoQuery /\ tasks[i].answer = NoAnswer
        /\ (last.ev = "Answer" /\ ~Yes(typed[Len(typed)])) =>
             /\ last.issued = <<>>
             /\ last.res = "handled"
             /\ \A i \in 1..Len(tasks) : tasks[i].ids # last.ids

\* the row count of .size is in execute() after the answer "Y "
C9_Witness ==
    \E i \in 1..Len(tasks) :
      /\ tasks[i].cmd = ".size" /\ tasks[i].pc = "exec"
      /\ tasks[i].sql = Q_ROW_COUNT(<<"t">>)
      /\ tasks[i].answer = LINE.yes
      /\ last.ev = "Answer"

(***************************************************************************)
(* Properties of the renderer.                                             *)
(***************************************************************************)

\* C10: with masking enabled, in each output mode two result sets that
\* differ only in non-null values of columns classified as full are printed
\* identically
C10_FullMaskHidesValues ==
    LET a == render.a
        b == render.b
        OnlyFullDiffers ==
            /\ a.columns = b.columns /\ Len(a.rows) = Len(b.rows)
            /\ a.rowsAffected = b.rowsAffected
            /\ \A r \in 1..Len(a.rows) : \A i \in 1..Len(a.columns) :
                 \/ a.rows[r][i] = b.rows[r][i]
                 \/ /\ columnMaskType(a.columns[i]) = "full"
                    /\ a.rows[r][i] # Null /\ b.rows[r][i] # Null
    IN  (render.done /\ render.masked /\ OnlyFullDiffers) => render.outA = render.outB

\* two result sets with different values in the column api_key have been
\* printed as JSON with masking enabled, and the same text was written
C10_Witness ==
    /\ render.done /\ render.masked /\ render.mode = "json"
    /\ render.a.columns = << <<"i","d">>, <<"a","p","i","_","k","e","y">> >>
    /\ Len(render.a.rows) = 1
    /\ render.a.rows[1] = <<Num(7), Str(<<"p","w">>)>>
    /\ render.b.rows[1] = <<Num(7), Str(<<"a","@","b">>)>>
    /\ render.outA = render.outB


(***************************************************************************)
(* Properties of the renderer, the splitter and the history file.          *)
(***************************************************************************)

C12_SplitOutsideStringsAndComments ==
    split.done =>
      LET sql == split.sql
          lex[k \in 0..Len(sql)] ==
              IF k = 0 THEN "code"
              ELSE LET c == sql[k]
                       q == lex[k - 1]
                   IN  CASE q = "comment"            -> IF c = "\n" THEN "code" ELSE "comment"
                         [] q = "str"                -> IF c = "'" THEN "quote" ELSE "str"
                         [] q = "quote" /\ c = "'"   -> "str"
                         [] q = "dash" /\ c = "-"    -> "comment"
                         [] OTHER                    -> IF c = "'" THEN "str"
                                                        ELSE IF c = "-" THEN "dash"
                                                        ELSE "code"
          IsCut(k)     == sql[k] = ";" /\ lex[k] = "code"
          InComment(k) == \/ lex[k] = "comment"
                          \/ lex[k] = "dash" /\ k < Len(sql) /\ lex[k + 1] = "comment"
          ref[k \in 0..Len(sql)] ==
              IF k = 0 THEN [done |-> <<>>, cur |-> <<>>]
              ELSE IF IsCut(k)
              THEN [done |-> IF Trim(ref[k - 1].cur) = <<>> THEN ref[k - 1].done
                             ELSE Append(ref[k - 1].done, Trim(ref[k - 1].cur)),
                    cur  |-> <<>>]
              ELSE IF InComment(k) THEN ref[k - 1]
              ELSE [ref[k - 1] EXCEPT !.cur = Append(@, sql[k])]
          end == ref[Len(sql)]
      IN  split.out = IF Trim(end.cur) = <<>> THEN end.done
                      ELSE Append(end.done, Trim(end.cur))

\* a text with a ";" in a string, a ";" in a comment and a ";" in code was split
C12_Witness ==
    /\ split.done
    /\ \/ split.sql = <<"'", ";", "'", ";", "a">> /\ split.out = << <<"'", ";", "'">>, <<"a">> >>
       \/ split.sql = <<"-", "-", ";", "\n", "a">> /\ split.out = << <<"a">> >>

\* C13 as stated: for every text without a string literal (no "'"),
\* splitStatements returns what the naive reference returns: the text split on
\* ";", each piece trimmed, the empty pieces removed.
C13_NoStringsLikeNaiveSplit ==
    (split.done /\ \A k \in 1..Len(split.sql) : split.sql[k] # "'") =>
      LET parts == SplitChar(split.sql, ";")
          naive[k \in 0..Len(parts)] ==
              IF k = 0 THEN <<>>
              ELSE IF Trim(parts[k]) = <<>> THEN naive[k - 1]
              ELSE Append(naive[k - 1], Trim(parts[k]))
      IN  split.out = naive[Len(parts)]

\* C13, amended: for every text without a string literal and without a "--"
\* line comment (no "'" and no two adjacent "-"), splitStatements returns what
\* the naive reference returns.
C13_NoStringsNoCommentsLikeNaiveSplit ==
    ( /\ split.done
      /\ \A k \in 1..Len(split.sql) : split.sql[k] # "'"
      /\ \A k \in 1..(Len(split.sql) - 1) : ~(split.sql[k] = "-" /\ split.sql[k + 1] = "-") ) =>
      LET parts == SplitChar(split.sql, ";")
          naive[k \in 0..Len(parts)] ==
              IF k = 0 THEN <<>>
              ELSE IF Trim(parts[k]) = <<>> THEN naive[k - 1]
              ELSE Append(naive[k - 1], Trim(parts[k]))
      IN  split.out = naive[Len(parts)]

\* a text without strings and comments, with blank pieces and untrimmed
\* statements, was split
C13_Witness ==
    /\ split.done
    /\ split.sql = <<" ", "a", ";", ";", "-">>
    /\ split.out = << <<"a">>, <<"-">> >>

\* C14: every statement splitStatements returns is non-empty and is its own
\* trimmed form.  An empty or whitespace-only text yields no statement,
\* terminators that are adjacent or separated by whitespace only yield no empty
\* statement, and the remainder after the last terminator (the text
\* accumulated there, comments being discarded as they are everywhere), when
\* it is not blank, is returned as the last statement.
C14_StatementsTrimmedNonEmpty ==
    split.done =>
      LET sql == split.sql
          out == split.out
          lex[k \in 0..Len(sql)] ==
              IF k = 0 THEN "code"
              ELSE LET c == sql[k]
                       q == lex[k - 1]
                   IN  CASE q = "comment"            -> IF c = "\n" THEN "code" ELSE "comment"
                         [] q = "str"                -> IF c = "'" THEN "quote" ELSE "str"
                         [] q = "quote" /\ c = "'"   -> "str"
                         [] q = "dash" /\ c = "-"    -> "comment"
                         [] OTHER                    -> IF c = "'" THEN "str"
                                                        ELSE IF c = "-" THEN "dash"
                                                        ELSE "code"
          cuts == {k \in 1..Len(sql) : sql[k] = ";" /\ lex[k] = "code"}
          from == IF cuts = {} THEN 1 ELSE (CHOOSE k \in cuts : \A j \in cuts : j <= k) + 1
          InComment(k) == \/ lex[k] = "comment"
                          \/ lex[k] = "dash" /\ k < Len(sql) /\ lex[k + 1] = "comment"
          final[k \in (from - 1)..Len(sql)] ==
              IF k = from - 1 THEN <<>>
              ELSE IF InComment(k) THEN final[k - 1]
              ELSE Append(final[k - 1], sql[k])
          OnlyBlankAndSemicolons ==
              \A k \in 1..Len(sql) : IsWs(sql[k]) \/ sql[k] = ";"
      IN  /\ \A i \in 1..Len(out) : out[i] # <<>> /\ Trim(out[i]) = out[i]
          /\ OnlyBlankAndSemicolons => out = <<>>
          /\ Trim(final[Len(sql)]) # <<>> =>
                (out # <<>> /\ out[Len(out)] = Trim(final[Len(sql)]))

\* terminators separated by whitespace only were followed by a last statement
\* without a terminator
C14_Witness ==
    /\ split.done
    /\ split.sql = <<";", " ", ";", "a", " ">>
    /\ split.out = << <<"a">> >>

\* C15: the statements entered interactively are executed in the order in which
\* they were completed, and their results or errors are rendered in that
\* order: when the result of a statement is rendered, no statement completed
\* before it is still waiting for its result.
C15_ResultsInCompletionOrder ==
    /\ \A i, j \in 1..Len(tasks) :
         (i < j /\ tasks[i].cmd = "stmt" /\ tasks[j].cmd = "stmt") =>
            \A a \in tasks[i].ids, b \in tasks[j].ids : a < b
    /\ (last.ev = "DbReturn" /\ last.cmd = "stmt") =>
         \A i \in 1..Len(tasks) :
            tasks[i].cmd = "stmt" => \A a \in tasks[i].ids, b \in last.ids : b < a

\* C16: when an execute() call fails, in the interactive loop or in the
\* execution of a file, the report written to the output holds the failing
\* statement's text, truncated to 80 characters, besides the error message.
C16_FailureReportNamesStatement ==
    LET Text(ids) ==
            LET sel[k \in 0..Len(typed)] ==
                    IF k = 0 THEN <<>>
                    ELSE IF k \in ids THEN Append(sel[k - 1], typed[k]) ELSE sel[k - 1]
            IN  Trim(Join(sel[Len(typed)], <<"\n">>))
        Reports(text) ==
            /\ \E k \in 1..Len(last.out) : last.out[k] = LogError(DB_ERROR)
            /\ \E k \in 1..Len(last.out) :
                  last.out[k].ch \in {"log", "error", "dim"} /\ Includes(last.out[k].msg, text)
    IN  (last.ev = "DbReturn" /\ last.outcome = "failed") =>
          CASE last.cmd = "stmt"               -> Reports(Truncate80(Text(last.ids)))
            [] last.cmd \in {".read", "file1"} -> Reports(<<"  Statement: ">>)
            [] OTHER                           -> TRUE

\* C17: after any sequence of saveHistory calls, loadHistory returns at most
\* HISTORY_MAX (1000) entries, and they are the last entries of the list of
\* history lines passed to the last save, in their order: the entries at the
\* front of a longer list are dropped, and what earlier saves wrote is
\* replaced.  With no history file, loadHistory returns the empty list.
C17_LoadReturnsLastSaved ==
    last.ev = "Load" =>
      /\ Len(history) <= 1000
      /\ histFile = NoFile => history = <<>>
      /\ saved # NoSave =>
           /\ histFile # NoFile
           /\ history = IF Len(saved) <= 1000 THEN saved
                        ELSE [i \in 1..1000 |-> saved[Len(saved) - 1000 + i]]

\* a list of more than HISTORY_MAX lines was saved and loaded
C17_Witness ==
    /\ last.ev = "Load"
    /\ saved # NoSave
    /\ Len(saved) = 1002
    /\ Len(history) = 1000
    /\ history[1] = <<"3">>

\* C18: ".clear-history" clears the command history: once it has been
\* dispatched in a session, the history that is persisted when the session
\* closes, and that the next session loads, holds none of the lines entered
\* before the command (unless the line was entered again after it).
C18_ClearHistoryForgetsEarlierLines ==
    (closed /\ sqlArg = NoArg) =>
      LET next == loadHistory(histFile)
      IN  \A k \in 1..Len(typed) :
            typed[k] = LINE.clear =>
              \A j \in 1..(k - 1) :
                 (\A m \in k..Len(typed) : typed[m] # typed[j]) =>
                    \A h \in 1..Len(next) : next[h] # typed[j]

\* C19: columns are rendered by position, not by name: in every output mode
\* each cell of each row has an output field of its own, computed from the
\* name and the cell of its column only, also when column names repeat.
\* Hence no cell is dropped or overwritten: two result sets that differ in one
\* cell only, whose two values are not shown alike under the mask of that
\* column, are not rendered alike.
C19_RenderedByPosition ==
    render.done =>
      LET a == render.a
          b == render.b
          Shown(val, name) ==
              IF render.masked THEN applyMaskRaw(val, columnMaskType(name))
              ELSE formatValueRaw(val)
      IN  \A r \in 1..Len(a.rows), i \in 1..Len(a.columns) :
            Shown(a.rows[r][i], a.columns[i]) # Shown(b.rows[r][i], a.columns[i]) =>
              render.outA # render.outB

\* C20: round trip: for every result set with at least one column, the text
\* rendered in json mode, parsed back, is one object per row, in row order,
\* whose keys are the columns and in which every column that is not masked has
\* the value of its cell.
C20_JsonRoundTrip ==
    (render.done /\ render.mode = "json" /\ Len(render.a.columns) >= 1) =>
      LET a      == render.a
          cols   == a.columns
          parsed == JsonParse(render.outA[1])
          Get(obj, key) == obj[CHOOSE p \in 1..Len(obj) : obj[p][1] = key][2]
      IN  /\ Len(parsed) = Len(a.rows)
          /\ \A r \in 1..Len(a.rows) :
                /\ {parsed[r][p][1] : p \in 1..Len(parsed[r])} = {cols[i] : i \in 1..Len(cols)}
                /\ \A i \in 1..Len(cols) :
                      (~render.masked \/ columnMaskType(cols[i]) = "none") =>
                         Get(parsed[r], cols[i]) = a.rows[r][i]

\* C21: masking is idempotent: the mask of a column (full or email) applied to
\* the text it has already masked gives that same text again; in particular
\* maskEmail(maskEmail(v)) = maskEmail(v).
C21_MaskingIdempotent ==
    (render.done /\ render.masked) =>
      \A r \in 1..Len(render.a.rows), i \in 1..Len(render.a.columns) :
        LET val  == render.a.rows[r][i]
            mask == columnMaskType(render.a.columns[i])
            once == applyMaskRaw(val, mask)
        IN  (val # Null /\ mask # "none") =>
              /\ applyMaskRaw(Str(once), mask) = once
              /\ mask = "email" => maskEmail(maskEmail(String(val))) = maskEmail(String(val))

(***************************************************************************)
(* Properties of the masking engine.                                       *)
(***************************************************************************)

\* C22: columnMaskType depends on the column name only, whatever its case,
\* and the first rule that matches wins: a name that starts with a reserved
\* prefix or contains a sensitive substring is "full", also when it contains
\* an email substring; otherwise a name that contains an email substring is
\* "email"; otherwise the name is "none".  isSensitiveColumn is true exactly
\* when the type is not "none".
C22_ClassifyFirstMatchWins ==
    masking.done =>
      LET name  == masking.name
          lower == [i \in 1..Len(name) |->
                       IF \E k \in 1..26 : Upper[k] = name[i]
                       THEN Lower[CHOOSE k \in 1..26 : Upper[k] = name[i]] ELSE name[i]]
          upper == [i \in 1..Len(name) |->
                       IF \E k \in 1..26 : Lower[k] = name[i]
                       THEN Upper[CHOOSE k \in 1..26 : Lower[k] = name[i]] ELSE name[i]]
          Has(x)  == \E i \in 1..(Len(lower) - Len(x) + 1) : SubSeq(lower, i, i + Len(x) - 1) = x
          prefix  == \E x \in { <<"e","n","c","r","y","p","t","e","d","_">>,
                                <<"h","a","s","h","e","d","_">> } :
                        Len(x) <= Len(lower) /\ SubSeq(lower, 1, Len(x)) = x
          secret  == \E x \in SENSITIVE_SUBSTRINGS : Has(x)
          email   == Has(<<"e","m","a","i","l">>) \/ Has(<<"e","_","m","a","i","l">>)
      IN  /\ masking.type = IF prefix \/ secret THEN "full"
                            ELSE IF email THEN "email" ELSE "none"
          /\ masking.sensitive = (masking.type # "none")
          /\ columnMaskType(lower) = masking.type
          /\ columnMaskType(upper) = masking.type

\* a name in mixed case with an email substring and a sensitive substring
\* was classified
C22_Witness ==
    /\ masking.done
    /\ masking.name = <<"E","m","a","i","l","_","H","a","s","h">>
    /\ masking.type = "full"
    /\ masking.sensitive

\* C23: maskEmail shows the first and the last character of the local part
\* and the domain only.  For a value whose first "@" is at index 1 or more the
\* result is the first character, the filler, the last character of the local
\* part and everything from the "@" on, a local part of one character giving
\* its first character and the filler only; a value with no "@" at index 1 or
\* more gives the full mask literal.
C23_MaskEmailReveal ==
    masking.done =>
      LET v    == masking.value
          ats  == {i \in 1..Len(v) : v[i] = "@"}
          p    == IF ats = {} THEN 0 ELSE CHOOSE i \in ats : \A j \in ats : i <= j
          fill == <<"U+2022", "U+2022", "U+2022", "U+2022">>
      IN  masking.email =
            IF p <= 1 THEN <<"*","*","*","*","*","*","*","*">>
            ELSE <<v[1]>> \o fill \o (IF p = 2 THEN <<>> ELSE <<v[p - 1]>>)
                 \o [i \in 1..(Len(v) - p + 1) |-> v[p + i - 1]]

\* a value with a local part of one character and one with a longer local
\* part and a second "@" were masked
C23_Witness ==
    /\ masking.done
    /\ \/ masking.value = <<"a", "@", "b">>
          /\ masking.email = <<"a", "U+2022", "U+2022", "U+2022", "U+2022", "@", "b">>
       \/ masking.value = <<"a", "b", "@", "@">>
          /\ masking.email = <<"a", "U+2022", "U+2022", "U+2022", "U+2022", "b", "@", "@">>

\* C24: in csv mode the output is the header line and then one line per row,
\* in row order; each line is its fields joined by ",", and every field, a
\* column name or the (masked) text of a cell, has gone through csvEscape: a
\* field with a comma, a double quote or a newline is wrapped in double
\* quotes with its double quotes doubled, any other field is written as it
\* is.  A null cell gives the field NULL.
C24_CsvEscapedFields ==
    (render.done /\ render.mode = "csv" /\ Len(render.a.columns) > 0) =>
      LET a    == render.a
          cols == a.columns
          n    == Len(cols)
          out  == render.outA
          Doubled(v) == LET d[k \in 0..Len(v)] ==
                                IF k = 0 THEN <<>>
                                ELSE IF v[k] = "\"" THEN d[k - 1] \o <<"\"", "\"">>
                                ELSE Append(d[k - 1], v[k])
                        IN  d[Len(v)]
          Escaped(v) == IF \E k \in 1..Len(v) : v[k] \in {",", "\"", "\n"}
                        THEN <<"\"">> \o Doubled(v) \o <<"\"">>
                        ELSE v
          CellText(val, name) ==
              IF val = Null THEN <<"N", "U", "L", "L">>
              ELSE IF render.masked THEN applyMaskRaw(val, columnMaskType(name))
              ELSE String(val)
          CsvLine(fields) == LET l[k \in 1..n] ==
                                  IF k = 1 THEN fields[1]
                                  ELSE l[k - 1] \o <<",">> \o fields[k]
                          IN  l[n]
      IN  /\ Len(out) = 1 + Len(a.rows)
          /\ out[1] = CsvLine([i \in 1..n |-> Escaped(cols[i])])
          /\ \A r \in 1..Len(a.rows) :
                out[r + 1] = CsvLine([i \in 1..n |-> Escaped(CellText(a.rows[r][i], cols[i]))])

\* a row with a null cell and a cell with a double quote was written under a
\* header with a name that holds double quotes
C24_Witness ==
    /\ render.done /\ render.mode = "csv"
    /\ Len(render.a.columns) = 2
    /\ render.a.rows = << <<Null, Str(<<"a", "\"">>)>> >>
    /\ render.outA[1] = <<"e", "m", "a", "i", "l", ",", "\"", "\"", "\"", "q", "\"", "\"", "\"">>
    /\ render.outA[2] = <<"N", "U", "L", "L", ",", "\"", "a", "\"", "\"", "\"">>

\* C25: for a result set without columns, default and table modes write the
\* one line "Rows affected: N" when rowsAffected > 0 and nothing otherwise,
\* and json, csv and markdown modes write nothing tabular, whatever
\* rowsAffected is: no header, no row, no array of row objects (at most the
\* line "Rows affected: N").
C25_NoColumns ==
    (render.done /\ render.a.columns = <<>>) =>
      LET affected == <<"Rows affected: ">> \o NatStr(render.a.rowsAffected)
      IN  IF render.mode \in {"default", "table"}
          THEN render.outA = IF render.a.rowsAffected > 0 THEN <<affected>> ELSE <<>>
          ELSE \A k \in 1..Len(render.outA) : render.outA[k] = affected

(***************************************************************************)
(* Further properties of the read-eval-print loop.                         *)
(***************************************************************************)

\* C26: the buffer is a complete statement only when it ends with a statement
\* terminator, a ";" outside a string and outside a comment: every statement
\* the REPL has sent to execute() ends with a ";" that is neither in a
\* single-quoted string that is still open nor in a "--" comment (lex as in
\* C12).
C26_CompleteOnlyAtTerminator ==
    \A t \in 1..Len(tasks) :
      tasks[t].cmd = "stmt" =>
        LET sql == tasks[t].sql
            lex[k \in 0..Len(sql)] ==
                IF k = 0 THEN "code"
                ELSE LET c == sql[k]
                         q == lex[k - 1]
                     IN  CASE q = "comment"            -> IF c = "\n" THEN "code" ELSE "comment"
                           [] q = "str"                -> IF c = "'" THEN "quote" ELSE "str"
                           [] q = "quote" /\ c = "'"   -> "str"
                           [] q = "dash" /\ c = "-"    -> "comment"
                           [] OTHER                    -> IF c = "'" THEN "str"
                                                          ELSE IF c = "-" THEN "dash"
                                                          ELSE "code"
        IN  sql # <<>> /\ sql[Len(sql)] = ";" /\ lex[Len(sql)] = "code"

\* C27: once the session has started, mode, masked and timing change only as
\* follows: ".mode M" with M the name of a mode in any case sets mode to M,
\* ".mask" sets masked, ".unmask" clears masked, ".timing" negates timing,
\* each leaving the other two fields alone; every other step (a statement
\* that is executed, that succeeds or fails, an interrupt, ".mode" without a
\* valid argument, ".quit", the end of input) leaves the three fields alone.
C27_StateChangedByItsCommandsOnly ==
    [][ main = "repl" =>
          LET dot  == nlines' = nlines + 1 /\ last'.ev = "Line"
              cmd  == last'.cmd
              line == typed'[Len(typed')]
          IN  IF dot /\ cmd = ".mode" /\ line = LINE.modeJson
              THEN state' = [state EXCEPT !.mode = "json"]
              ELSE IF dot /\ cmd = ".mask" THEN state' = [state EXCEPT !.masked = TRUE]
              ELSE IF dot /\ cmd = ".unmask" THEN state' = [state EXCEPT !.masked = FALSE]
              ELSE IF dot /\ cmd = ".timing" THEN state' = [state EXCEPT !.timing = ~state.timing]
              ELSE state' = state ]_vars

\* ".timing", ".unmask" and ".MODE Json" have changed one field each
C27_Witness ==
    /\ typed = <<LINE.timing, LINE.unmask, LINE.modeJson>>
    /\ last.ev = "Line" /\ last.cmd = ".mode"
    /\ state = [mode |-> "json", masked |-> FALSE, timing |-> TRUE]
    /\ sqlArg = NoArg /\ histFile # NoFile

\* C28: a line whose trimmed text starts with "." is dispatched as a
\* dot-command only when the buffer is empty, and then its text is neither
\* sent to the database as a statement nor put into the buffer, in that step
\* or in a later one; a line that starts with "." or is blank and arrives
\* while the buffer is not empty is pushed onto the buffer as statement text
\* and not dispatched; a blank line that arrives while the buffer is empty
\* changes nothing (the buffer stays empty, nothing is executed).
C28_DotCommandOnlyWithEmptyBuffer ==
    [][ LET isLine == nlines' = nlines + 1 /\ last'.ev = "Line"
            id == nlines'
            line == typed'[id]
            trimmed == Trim(line)
            dot == StartsWith(trimmed, <<".">>)
            blank == Len(trimmed) = 0
            entry == [id |-> id, text |-> line]
            dispatched == isLine /\ last'.cmd \notin {"sql", "blank"}
            pushed == IF isLine /\ ~dispatched /\ last'.cmd = "sql" THEN {id} ELSE {}
            Statements(ts) == {i \in 1..Len(ts) : ts[i].cmd = "stmt"}
        IN  /\ BufferIds(buffer') \subseteq BufferIds(buffer) \cup pushed
            /\ \A i \in Statements(tasks') :
                 \/ \E j \in Statements(tasks) : tasks[j].ids = tasks'[i].ids
                 \/ tasks'[i].ids \subseteq BufferIds(buffer) \cup pushed
            /\ isLine =>
                 /\ dispatched => dot /\ buffer = <<>>
                 /\ dot /\ buffer = <<>> =>
                      /\ dispatched
                      /\ buffer' = <<>>
                      /\ \A k \in 1..Len(last'.issued) :
                           last'.issued[k] \notin {line, trimmed}
                 /\ (dot \/ blank) /\ buffer # <<>> =>
                      /\ last'.cmd = "sql"
                      /\ \/ buffer' = Append(buffer, entry)
                         \/ /\ buffer' = <<>>
                            /\ last'.issued = <<Trim(BufferText(Append(buffer, entry)))>>
                 /\ blank /\ buffer = <<>> =>
                      /\ last'.cmd = "blank"
                      /\ buffer' = <<>> /\ tasks' = tasks /\ last'.issued = <<>> ]_vars

\* ".quit" and a blank line have been pushed onto the buffer that "a" opened
C28_Witness ==
    /\ typed = <<LINE.a, LINE.quit, LINE.blank>>
    /\ [i \in 1..Len(buffer) |-> buffer[i].text] = <<LINE.a, LINE.quit, LINE.blank>>
    /\ ~closed /\ tasks = <<>> /\ prompt = PROMPT_CONTINUE
    /\ sqlArg = NoArg /\ histFile # NoFile

\* C29: in every reachable state of an open REPL session the current prompt
\* is the continuation marker exactly when the buffer is not empty
\* (awaiting input: empty buffer and primary prompt; accumulating: non-empty
\* buffer and continuation prompt).
C29_ContinuationPromptIffBuffer ==
    main = "repl" /\ ~closed => (prompt = PROMPT_CONTINUE <=> buffer # <<>>)

\* C30: while state.masked is true, no output of the session, of a
\* statement or of a dot-command (.dump included), contains the unmasked
\* non-null value of a column whose name classifies as full or email.
C30_MaskedOutputHidesSensitiveValues ==
    main = "repl" /\ state.masked =>
        \A rs \in ResultSets : \A r \in 1..Len(rs.rows) : \A i \in 1..Len(rs.columns) :
            isSensitiveColumn(rs.columns[i]) /\ rs.rows[r][i] # Null =>
                \A k \in 1..Len(last.out) :
                    LET written == Rendered(last.out[k])
                    IN  \A j \in 1..Len(written) :
                            ~Includes(written[j].msg, String(rs.rows[r][i]))

====
